---- MODULE Spec2Model ----
(***************************************************************************)
(* The tick-based authoritative game server of src/server.js (the program  *)
(* that starts at line 250): players, bullets and money pickups advanced   *)
(* by gameLoop at a fixed timestep, with the socket handlers (connection,  *)
(* input, shoot, ping, disconnect) running between ticks.                  *)
(*                                                                         *)
(* Numbers.  The program computes in IEEE doubles; the model computes in   *)
(* fixed point, every real quantity (positions, velocities, energy, money, *)
(* multipliers) being an integer count of 1/SCALE.  Products are truncated *)
(* toward zero.  An angle is kept as the pair <<cos, sin>> in 1/SCALE.     *)
(***************************************************************************)
EXTENDS Integers, Sequences, FiniteSets, TLC

SCALE == 10 * 10

\* ------------------------------------------------------------ GAME_CONFIG
ARENA_WIDTH == 1600 * SCALE
ARENA_HEIGHT == 1200 * SCALE
RADIUS == 20 * SCALE
MOMENTUM == 98
MAX_VELOCITY == 4 * SCALE
MAX_BOOST_VELOCITY == 6 * SCALE
ACCELERATION == 30
ENERGY_MAX == 100 * SCALE
ENERGY_REGEN == 15
BOOST_DRAIN == 30
INVULNERABLE_TICKS == 120
MAX_LIFETIME_TICKS == 300
MAX_SPEED == 10 * SCALE

NORMAL == [speed |-> 6 * SCALE, radius |-> 8 * SCALE, damage |-> 15 * SCALE, energyCost |-> 5 * SCALE]
CHARGED1 == [speed |-> 7 * SCALE, radius |-> 12 * SCALE, damage |-> 30 * SCALE, energyCost |-> 10 * SCALE]
CHARGED2 == [speed |-> 8 * SCALE, radius |-> 16 * SCALE, damage |-> 45 * SCALE, energyCost |-> 15 * SCALE]

\* literals of the functions
PADDING == 100 * SCALE
BARREL_LENGTH == 35 * SCALE
MONEY_RADIUS == 15 * SCALE
MAGNETIC_RANGE == 80 * SCALE
PULL_STRENGTH == 50
BASE_DOLLAR == 1 * SCALE

\* ---------------------------------------------------------------- numbers
Abs(x) == IF x < 0 THEN -x ELSE x
Min(a, b) == IF a < b THEN a ELSE b
Max(a, b) == IF a > b THEN a ELSE b

\* a / b truncated toward zero (b > 0)
TruncDiv(a, b) == IF a >= 0 THEN a \div b ELSE -((-a) \div b)

RECURSIVE SqrtSearch(_, _, _)
SqrtSearch(n, lo, hi) ==
    IF lo >= hi THEN lo
    ELSE LET mid == (lo + hi + 1) \div 2
         IN  IF mid * mid <= n THEN SqrtSearch(n, mid, hi)
                               ELSE SqrtSearch(n, lo, mid - 1)

\* floor and ceiling of the square root of n, 0 <= n < 2^31
SqrtFloor(n) == SqrtSearch(n, 0, 46340)
RoundUp(n, r) == IF r * r = n THEN r ELSE r + 1
SqrtCeil(n) == RoundUp(n, SqrtFloor(n))

\* Math.hypot(x, y) for |x|, |y| <= FAR, rounded up
FAR == 300 * SCALE
Hypot(x, y) == SqrtCeil(x * x + y * y)

clamp(value, min, max) == Max(min, Min(max, value))

\* getDistance squared.  Every use of getDistance compares the distance with a
\* radius, and d < r is d*d < r*r exactly; beyond FAR on either axis the result
\* saturates at FAR*FAR, above every radius the program compares with.
getDistanceSq(x1, y1, x2, y2) ==
    LET dx == x2 - x1
        dy == y2 - y1
    IN  IF Abs(dx) >= FAR \/ Abs(dy) >= FAR THEN FAR * FAR
        ELSE dx * dx + dy * dy

\* normalizeVector on a vector given in 1/SCALE, the result a unit vector in 1/SCALE
divideBy(x, y, length) ==
    IF length = 0 THEN [x |-> 0, y |-> 0]
    ELSE [x |-> TruncDiv(x * SCALE, length), y |-> TruncDiv(y * SCALE, length)]

normalizeVector(x, y) == divideBy(x, y, Hypot(x, y))

\* ----------------------------------------------------------------- values
NoKiller == "null"

ANGLE_ZERO == <<SCALE, 0>>
Cos(angle) == angle[1]
Sin(angle) == angle[2]

\* the value null of player.currentInput
NullInput ==
    [isNull |-> TRUE, up |-> FALSE, down |-> FALSE, left |-> FALSE, right |-> FALSE,
     boost |-> FALSE, hasAngle |-> FALSE, angle |-> ANGLE_ZERO,
     hasSequence |-> FALSE, sequence |-> 0]

\* spawnPlayer; rnd: the two values Math.random() returns, in 1/SCALE (0 <= rnd < SCALE)
spawnPlayer(socketId, rnd) ==
    [id |-> socketId,
     x |-> PADDING + TruncDiv(rnd[1] * (ARENA_WIDTH - PADDING * 2), SCALE),
     y |-> PADDING + TruncDiv(rnd[2] * (ARENA_HEIGHT - PADDING * 2), SCALE),
     velocityX |-> 0,
     velocityY |-> 0,
     angle |-> ANGLE_ZERO,
     energy |-> ENERGY_MAX,
     dollarValue |-> BASE_DOLLAR,
     invulnerable |-> TRUE,
     invulnerableTicksRemaining |-> INVULNERABLE_TICKS,
     killStreak |-> 0,
     bountyMultiplier |-> 1 * SCALE,
     lastProcessedSequence |-> -1,
     currentInput |-> NullInput,
     isBoosting |-> FALSE]

\* --------------------------------------------------------------- movement
\* the input vector of processPlayerInput, in 1/SCALE
inputVector(rawX, rawY) ==
    IF rawX # 0 /\ rawY # 0
    THEN normalizeVector(rawX * SCALE, rawY * SCALE)
    ELSE [x |-> rawX * SCALE, y |-> rawY * SCALE]

applyInput(player, input, dir, isBoosting) ==
    [player EXCEPT
        !.velocityX = @ + TruncDiv(dir.x * ACCELERATION, SCALE),
        !.velocityY = @ + TruncDiv(dir.y * ACCELERATION, SCALE),
        !.energy = IF isBoosting THEN Max(0, @ - BOOST_DRAIN) ELSE @,
        !.angle = IF input.hasAngle THEN input.angle ELSE @,
        !.isBoosting = isBoosting]

processPlayerInput(player, input) ==
    IF input.isNull THEN player
    ELSE applyInput(player, input,
                    inputVector((IF input.right THEN 1 ELSE 0) - (IF input.left THEN 1 ELSE 0),
                                (IF input.down THEN 1 ELSE 0) - (IF input.up THEN 1 ELSE 0)),
                    input.boost /\ player.energy > 0)

\* updatePlayerPhysics up to the position update.  vx, vy: the velocity after
\* momentum; currentSpeed: its magnitude, taken once, before the cap
capVelocity(v, currentSpeed, maxVel) ==
    IF currentSpeed > maxVel THEN TruncDiv(v * maxVel, currentSpeed) ELSE v

rescaleVelocity(v, currentSpeed) ==
    IF currentSpeed > MAX_SPEED THEN TruncDiv(v * MAX_SPEED, currentSpeed) ELSE v

moveBy(player, vx, vy) ==
    [player EXCEPT !.velocityX = vx, !.velocityY = vy, !.x = @ + vx, !.y = @ + vy]

limitAndMove(player, vx, vy, currentSpeed, maxVel) ==
    moveBy(player,
           rescaleVelocity(capVelocity(vx, currentSpeed, maxVel), currentSpeed),
           rescaleVelocity(capVelocity(vy, currentSpeed, maxVel), currentSpeed))

\* faulty variant: the cap is the boosting one whatever the flag
withMomentumBoostCap(player, vx, vy) ==
    limitAndMove(player, vx, vy, Hypot(vx, vy), MAX_BOOST_VELOCITY)

withMomentum(player, vx, vy) ==
    limitAndMove(player, vx, vy, Hypot(vx, vy),
                 IF player.isBoosting THEN MAX_BOOST_VELOCITY ELSE MAX_VELOCITY)

integratePlayer(player) ==
    withMomentum(player,
                 TruncDiv(player.velocityX * MOMENTUM, SCALE),
                 TruncDiv(player.velocityY * MOMENTUM, SCALE))

\* faulty variant: the wall test without the player's radius
touchesWallNoRadius(player) ==
    \/ player.x <= 0
    \/ player.x >= ARENA_WIDTH
    \/ player.y <= 0
    \/ player.y >= ARENA_HEIGHT

\* faulty variant: the wall test with strict comparisons
touchesWallStrict(player) ==
    \/ player.x - RADIUS < 0
    \/ player.x + RADIUS > ARENA_WIDTH
    \/ player.y - RADIUS < 0
    \/ player.y + RADIUS > ARENA_HEIGHT

\* the wall test of updatePlayerPhysics
touchesWall(player) ==
    LET r == RADIUS
    IN  \/ player.x - r <= 0
        \/ player.x + r >= ARENA_WIDTH
        \/ player.y - r <= 0
        \/ player.y + r >= ARENA_HEIGHT

\* ------------------------------------------------------------ game state
\* A state of the program as one record st: players (socket id -> player),
\* order (the ids in insertion order, the order of Object.values), bullets,
\* moneyPickups, tickCount, events (what io.emit sent during the current
\* handler or tick, oldest first) and serial (the source of the unique part of
\* bullet and pickup ids, Math.random() in the program).
emit(st, ev) == [st EXCEPT !.events = Append(@, ev)]

RemoveAt(seq, i) == SubSeq(seq, 1, i - 1) \o SubSeq(seq, i + 1, Len(seq))

\* the streak-to-multiplier ladder of killPlayer
\* faulty variant: the top step is reached one kill late
multiplierOfLateTop(killStreak) ==
    IF killStreak = 0 THEN 1 * SCALE
    ELSE IF killStreak < 3 THEN (15 * SCALE) \div 10
    ELSE IF killStreak <= 5 THEN 2 * SCALE
    ELSE 3 * SCALE

multiplierOf(killStreak) ==
    IF killStreak = 0 THEN 1 * SCALE
    ELSE IF killStreak < 3 THEN (15 * SCALE) \div 10
    ELSE IF killStreak < 5 THEN 2 * SCALE
    ELSE 3 * SCALE

\* faulty variant: the multiplier is raised but the kill is not counted
creditKillerUncounted(killer) ==
    [killer EXCEPT !.bountyMultiplier = multiplierOf(killer.killStreak + 1)]

creditKiller(killer) ==
    LET streak == killer.killStreak + 1
    IN  [killer EXCEPT !.killStreak = streak, !.bountyMultiplier = multiplierOf(streak)]

\* faulty variant: the pickup is built after the respawn, from the reset record
killPlayerDropsAfterRespawn(st, deadPlayerId, killerId, pos) ==
    IF deadPlayerId \notin DOMAIN st.players THEN st
    ELSE
    LET respawn == spawnPlayer(deadPlayerId, pos)
        moneyDrop == [id |-> st.serial, x |-> respawn.x, y |-> respawn.y,
                      amount |-> respawn.dollarValue, radius |-> MONEY_RADIUS]
        credited == killerId # NoKiller /\ killerId \in DOMAIN st.players
        players1 == IF credited
                    THEN [st.players EXCEPT ![killerId] = creditKiller(@)]
                    ELSE st.players
    IN  emit([st EXCEPT !.moneyPickups = Append(@, moneyDrop),
                        !.serial = @ + 1,
                        !.players = [players1 EXCEPT ![deadPlayerId] = respawn]],
             [type |-> "playerDied", playerId |-> deadPlayerId, killerId |-> killerId,
              moneyDrop |-> moneyDrop, respawn |-> respawn])

\* faulty variant: nothing happens when the killer named is no longer connected
killPlayerNeedsKiller(st, deadPlayerId, killerId, pos) ==
    IF deadPlayerId \notin DOMAIN st.players THEN st
    ELSE IF killerId # NoKiller /\ killerId \notin DOMAIN st.players THEN st
    ELSE
    LET moneyDrop == [id |-> st.serial, x |-> st.players[deadPlayerId].x,
                      y |-> st.players[deadPlayerId].y,
                      amount |-> st.players[deadPlayerId].dollarValue,
                      radius |-> MONEY_RADIUS]
        respawn == spawnPlayer(deadPlayerId, pos)
        players1 == IF killerId # NoKiller
                    THEN [st.players EXCEPT ![killerId] = creditKiller(@)]
                    ELSE st.players
    IN  emit([st EXCEPT !.moneyPickups = Append(@, moneyDrop),
                        !.serial = @ + 1,
                        !.players = [players1 EXCEPT ![deadPlayerId] = respawn]],
             [type |-> "playerDied", playerId |-> deadPlayerId, killerId |-> killerId,
              moneyDrop |-> moneyDrop, respawn |-> respawn])

\* faulty variant: the victim is not respawned
killPlayerWithoutRespawn(st, deadPlayerId, killerId, pos) ==
    IF deadPlayerId \notin DOMAIN st.players THEN st
    ELSE
    LET deadPlayer == st.players[deadPlayerId]
        moneyDrop == [id |-> st.serial, x |-> deadPlayer.x, y |-> deadPlayer.y,
                      amount |-> deadPlayer.dollarValue, radius |-> MONEY_RADIUS]
        credited == killerId # NoKiller /\ killerId \in DOMAIN st.players
        players1 == IF credited
                    THEN [st.players EXCEPT ![killerId] = creditKiller(@)]
                    ELSE st.players
    IN  emit([st EXCEPT !.moneyPickups = Append(@, moneyDrop),
                        !.serial = @ + 1,
                        !.players = players1],
             [type |-> "playerDied", playerId |-> deadPlayerId, killerId |-> killerId,
              moneyDrop |-> moneyDrop, respawn |-> players1[deadPlayerId]])

\* faulty variant: the respawned record keeps the victim's input bookkeeping
killPlayerKeepsInput(st, deadPlayerId, killerId, pos) ==
    IF deadPlayerId \notin DOMAIN st.players THEN st
    ELSE
    LET deadPlayer == st.players[deadPlayerId]
        moneyDrop == [id |-> st.serial, x |-> deadPlayer.x, y |-> deadPlayer.y,
                      amount |-> deadPlayer.dollarValue, radius |-> MONEY_RADIUS]
        credited == killerId # NoKiller /\ killerId \in DOMAIN st.players
        players1 == IF credited
                    THEN [st.players EXCEPT ![killerId] = creditKiller(@)]
                    ELSE st.players
        respawn == [spawnPlayer(deadPlayerId, pos) EXCEPT
                       !.currentInput = deadPlayer.currentInput,
                       !.lastProcessedSequence = deadPlayer.lastProcessedSequence]
    IN  emit([st EXCEPT !.moneyPickups = Append(@, moneyDrop),
                        !.serial = @ + 1,
                        !.players = [players1 EXCEPT ![deadPlayerId] = respawn]],
             [type |-> "playerDied", playerId |-> deadPlayerId, killerId |-> killerId,
              moneyDrop |-> moneyDrop, respawn |-> respawn])

\* killPlayer; pos: what Math.random() returns to spawnPlayer
killPlayer(st, deadPlayerId, killerId, pos) ==
    IF deadPlayerId \notin DOMAIN st.players THEN st
    ELSE
    LET deadPlayer == st.players[deadPlayerId]
        moneyDrop == [id |-> st.serial,
                      x |-> deadPlayer.x,
                      y |-> deadPlayer.y,
                      amount |-> deadPlayer.dollarValue,
                      radius |-> MONEY_RADIUS]
        credited == killerId # NoKiller /\ killerId \in DOMAIN st.players
        players1 == IF credited
                    THEN [st.players EXCEPT ![killerId] = creditKiller(@)]
                    ELSE st.players
        respawn == spawnPlayer(deadPlayerId, pos)
        players2 == [players1 EXCEPT ![deadPlayerId] = respawn]
    IN  emit([st EXCEPT !.moneyPickups = Append(@, moneyDrop),
                        !.serial = @ + 1,
                        !.players = players2],
             [type |-> "playerDied", playerId |-> deadPlayerId, killerId |-> killerId,
              moneyDrop |-> moneyDrop, respawn |-> respawn])

\* faulty variant: the wall spares a player that is still invulnerable
wallCollisionSparesInvulnerable(st, id, pos) ==
    IF touchesWall(st.players[id]) /\ ~st.players[id].invulnerable
    THEN killPlayer(st, id, NoKiller, pos)
    ELSE st

\* updatePlayerPhysics for the player with this id
wallCollision(st, id, pos) ==
    IF touchesWall(st.players[id]) THEN killPlayer(st, id, NoKiller, pos) ELSE st

updatePlayerPhysics(st, id, pos) ==
    wallCollision([st EXCEPT !.players[id] = integratePlayer(@)], id, pos)

\* ---------------------------------------------------------------- shooting
bulletTypeOf(chargeLevel) ==
    IF chargeLevel = 1 THEN CHARGED1
    ELSE IF chargeLevel = 2 THEN CHARGED2
    ELSE NORMAL

\* faulty variant: the request is validated against the normal shot's cost
canAffordNormal(player, bulletType) == ~(player.energy < NORMAL.energyCost)

canAfford(player, bulletType) == ~(player.energy < bulletType.energyCost)

\* faulty variant: the bullet is created at the player's centre
handleShootAtCentre(st, playerId, chargeLevel) ==
    IF playerId \notin DOMAIN st.players THEN st
    ELSE
    LET player == st.players[playerId]
        bulletType == bulletTypeOf(chargeLevel)
        bullet == [id |-> st.serial, x |-> player.x, y |-> player.y,
                   vx |-> TruncDiv(Cos(player.angle) * bulletType.speed, SCALE),
                   vy |-> TruncDiv(Sin(player.angle) * bulletType.speed, SCALE),
                   radius |-> bulletType.radius, damage |-> bulletType.damage,
                   ownerId |-> playerId, chargeLevel |-> chargeLevel,
                   createdAtTick |-> st.tickCount]
    IN  IF ~canAfford(player, bulletType) THEN st
        ELSE emit([st EXCEPT !.players[playerId].energy = @ - bulletType.energyCost,
                             !.bullets = Append(@, bullet),
                             !.serial = @ + 1],
                  [type |-> "bulletSpawned", bullet |-> bullet])

\* handleShoot; chargeLevel is shootData.chargeLevel || 0
handleShoot(st, playerId, chargeLevel) ==
    IF playerId \notin DOMAIN st.players THEN st
    ELSE
    LET player == st.players[playerId]
        bulletType == bulletTypeOf(chargeLevel)
        bullet == [id |-> st.serial,
                   x |-> player.x + TruncDiv(Cos(player.angle) * BARREL_LENGTH, SCALE),
                   y |-> player.y + TruncDiv(Sin(player.angle) * BARREL_LENGTH, SCALE),
                   vx |-> TruncDiv(Cos(player.angle) * bulletType.speed, SCALE),
                   vy |-> TruncDiv(Sin(player.angle) * bulletType.speed, SCALE),
                   radius |-> bulletType.radius,
                   damage |-> bulletType.damage,
                   ownerId |-> playerId,
                   chargeLevel |-> chargeLevel,
                   createdAtTick |-> st.tickCount]
    IN  IF ~canAfford(player, bulletType) THEN st
        ELSE emit([st EXCEPT !.players[playerId].energy = @ - bulletType.energyCost,
                             !.bullets = Append(@, bullet),
                             !.serial = @ + 1],
                  [type |-> "bulletSpawned", bullet |-> bullet])

\* ------------------------------------------------------------------ bullets
\* faulty variant: the age test is off by one tick
isExpiredLate(bullet, tickCount) ==
    tickCount - bullet.createdAtTick > MAX_LIFETIME_TICKS + 1

isExpired(bullet, tickCount) ==
    tickCount - bullet.createdAtTick > MAX_LIFETIME_TICKS

outOfArena(bullet) ==
    \/ bullet.x < 0
    \/ bullet.x > ARENA_WIDTH
    \/ bullet.y < 0
    \/ bullet.y > ARENA_HEIGHT

\* faulty variant: the invulnerable flag is not looked at
canBeHitWhileInvulnerable(player, bullet) == player.id # bullet.ownerId

\* the two early returns of the collision callback
canBeHit(player, bullet) ==
    /\ player.id # bullet.ownerId
    /\ ~player.invulnerable

overlaps(bullet, player) ==
    getDistanceSq(bullet.x, bullet.y, player.x, player.y)
        < (bullet.radius + RADIUS) * (bullet.radius + RADIUS)

\* the body of the collision callback for one player, once the bullet overlaps
\* it: the damage, the playerHit event, the death
applyDamage(st, bullet, id, energy) ==
    emit([st EXCEPT !.players[id].energy = energy],
         [type |-> "playerHit", targetId |-> id, shooterId |-> bullet.ownerId,
          damage |-> bullet.damage, energy |-> energy, bulletId |-> bullet.id])

deathCheck(st, bullet, id, pos) ==
    IF st.players[id].energy <= 0 THEN killPlayer(st, id, bullet.ownerId, pos) ELSE st

\* the collision callback for one player: [st, hit]
hitPlayer(st, bullet, id, pos) ==
    IF ~canBeHit(st.players[id], bullet) \/ ~overlaps(bullet, st.players[id])
    THEN [st |-> st, hit |-> FALSE]
    ELSE [st |-> deathCheck(applyDamage(st, bullet, id, st.players[id].energy - bullet.damage),
                            bullet, id, pos[id]),
          hit |-> TRUE]

\* Object.values(gameState.players).forEach of updateBullets, from player k on;
\* r is [st, hit] so far
RECURSIVE collidePlayers(_, _, _, _)
collideNext(r, was, bullet, k, pos) ==
    collidePlayers([st |-> r.st, hit |-> was \/ r.hit], bullet, k + 1, pos)

collidePlayers(r, bullet, k, pos) ==
    IF k > Len(r.st.order) THEN r
    ELSE collideNext(hitPlayer(r.st, bullet, r.st.order[k], pos), r.hit, bullet, k, pos)

removeBullet(st, i, bullet) ==
    emit([st EXCEPT !.bullets = RemoveAt(@, i)],
         [type |-> "bulletRemoved", bulletId |-> bullet.id])

afterCollisions(r, i, bullet) ==
    IF r.hit THEN removeBullet(r.st, i, bullet) ELSE r.st

\* the loop body of updateBullets once the bullet at index i has moved
checkBullet(st, i, pos) ==
    IF outOfArena(st.bullets[i]) THEN removeBullet(st, i, st.bullets[i])
    ELSE afterCollisions(collidePlayers([st |-> st, hit |-> FALSE], st.bullets[i], 1, pos),
                         i, st.bullets[i])

\* one iteration of the loop of updateBullets, on the bullet at index i
updateBullet(st, i, pos) ==
    IF isExpired(st.bullets[i], st.tickCount) THEN removeBullet(st, i, st.bullets[i])
    ELSE checkBullet([st EXCEPT !.bullets[i].x = @ + st.bullets[i].vx,
                                !.bullets[i].y = @ + st.bullets[i].vy],
                     i, pos)

RECURSIVE bulletLoop(_, _, _)
bulletLoop(st, i, pos) ==
    IF i < 1 THEN st ELSE bulletLoop(updateBullet(st, i, pos), i - 1, pos)

updateBullets(st, pos) == bulletLoop(st, Len(st.bullets), pos)

\* ------------------------------------------------------------------- money
inMagneticRange(distSq) ==
    /\ distSq < MAGNETIC_RANGE * MAGNETIC_RANGE
    /\ distSq > (RADIUS + MONEY_RADIUS) * (RADIUS + MONEY_RADIUS)

inPickupRange(distSq, money) ==
    distSq < (RADIUS + money.radius) * (RADIUS + money.radius)

\* the magnetic pull: cos and sin of atan2(dy, dx) are dx/d and dy/d
pullBy(money, dx, dy, d) ==
    [money EXCEPT !.x = @ + TruncDiv(dx * PULL_STRENGTH, d),
                  !.y = @ + TruncDiv(dy * PULL_STRENGTH, d)]

\* faulty variant: the pull has the wrong sign
pullMoneyAway(money, player) ==
    pullBy(money, money.x - player.x, money.y - player.y,
           Hypot(player.x - money.x, player.y - money.y))

pullMoney(money, player) ==
    pullBy(money, player.x - money.x, player.y - money.y,
           Hypot(player.x - money.x, player.y - money.y))

\* faulty variant: the collected pickup is not spliced out of the list
collectMoneyKeepsPickup(st, id, i) ==
    emit([st EXCEPT !.players[id].dollarValue = @ + st.moneyPickups[i].amount],
         [type |-> "moneyPickedUp", playerId |-> id, moneyId |-> st.moneyPickups[i].id,
          newDollarValue |-> st.players[id].dollarValue + st.moneyPickups[i].amount])

\* faulty variant: the pickup is removed and its amount credited to no one
collectMoneyUncredited(st, id, i) ==
    emit([st EXCEPT !.moneyPickups = RemoveAt(@, i)],
         [type |-> "moneyPickedUp", playerId |-> id, moneyId |-> st.moneyPickups[i].id,
          newDollarValue |-> st.players[id].dollarValue])

collectMoney(st, id, i) ==
    emit([st EXCEPT !.players[id].dollarValue = @ + st.moneyPickups[i].amount,
                    !.moneyPickups = RemoveAt(@, i)],
         [type |-> "moneyPickedUp", playerId |-> id, moneyId |-> st.moneyPickups[i].id,
          newDollarValue |-> st.players[id].dollarValue + st.moneyPickups[i].amount])

\* the body of the inner loop of updateMoneyPickups: player id, pickup index i,
\* distSq the distance taken before the pull
pullAndCollect(st, id, i, distSq) ==
    IF inPickupRange(distSq, st.moneyPickups[i]) THEN collectMoney(st, id, i)
    ELSE IF inMagneticRange(distSq)
    THEN [st EXCEPT !.moneyPickups[i] = pullMoney(@, st.players[id])]
    ELSE st

updateMoneyPickup(st, id, i) ==
    pullAndCollect(st, id, i,
                   getDistanceSq(st.players[id].x, st.players[id].y,
                                 st.moneyPickups[i].x, st.moneyPickups[i].y))

RECURSIVE moneyLoop(_, _, _)
moneyLoop(st, id, i) ==
    IF i < 1 THEN st ELSE moneyLoop(updateMoneyPickup(st, id, i), id, i - 1)

RECURSIVE moneyPlayers(_, _)
moneyPlayers(st, k) ==
    IF k > Len(st.order) THEN st
    ELSE moneyPlayers(moneyLoop(st, st.order[k], Len(st.moneyPickups)), k + 1)

\* faulty variant: the players are visited last to first
RECURSIVE moneyPlayersLastFirst(_, _)
moneyPlayersLastFirst(st, k) ==
    IF k < 1 THEN st
    ELSE moneyPlayersLastFirst(moneyLoop(st, st.order[k], Len(st.moneyPickups)), k - 1)

updateMoneyPickupsLastFirst(st) == moneyPlayersLastFirst(st, Len(st.order))

updateMoneyPickups(st) == moneyPlayers(st, 1)

\* ---------------------------------------------------------------- gameLoop
\* the input stage for one player
inputStagePlayer(player) ==
    LET input == player.currentInput
    IN  IF ~input.isNull /\ input.hasSequence /\ input.sequence > player.lastProcessedSequence
        THEN [processPlayerInput(player, input) EXCEPT !.lastProcessedSequence = input.sequence]
        ELSE player

inputStage(st) ==
    [st EXCEPT !.players = [id \in DOMAIN st.players |-> inputStagePlayer(st.players[id])]]

RECURSIVE physicsLoop(_, _, _)
physicsLoop(st, k, pos) ==
    IF k > Len(st.order) THEN st
    ELSE physicsLoop(updatePlayerPhysics(st, st.order[k], pos[st.order[k]]), k + 1, pos)

physicsStage(st, pos) == physicsLoop(st, 1, pos)

\* faulty variant: the flag outlives the count
invulnerabilityPlayerKeepsFlag(player) ==
    IF player.invulnerable /\ player.invulnerableTicksRemaining > 0
    THEN [player EXCEPT !.invulnerableTicksRemaining = @ - 1]
    ELSE player

invulnerabilityPlayer(player) ==
    IF player.invulnerable /\ player.invulnerableTicksRemaining > 0
    THEN LET left == player.invulnerableTicksRemaining - 1
         IN  [player EXCEPT !.invulnerableTicksRemaining = left,
                            !.invulnerable = IF left <= 0 THEN FALSE ELSE @]
    ELSE player

invulnerabilityStage(st) ==
    [st EXCEPT !.players = [id \in DOMAIN st.players |-> invulnerabilityPlayer(st.players[id])]]

\* the boosting test of the regeneration loop
regenBlocked(player) ==
    /\ ~player.currentInput.isNull
    /\ player.currentInput.boost
    /\ player.energy > 0

\* faulty variant: regeneration without the cap at ENERGY.MAX
regenPlayerUncapped(player) ==
    IF ~regenBlocked(player)
    THEN [player EXCEPT !.energy = @ + ENERGY_REGEN]
    ELSE player

regenPlayer(player) ==
    IF ~regenBlocked(player)
    THEN [player EXCEPT !.energy = Min(ENERGY_MAX, @ + ENERGY_REGEN)]
    ELSE player

regenStage(st) ==
    [st EXCEPT !.players = [id \in DOMAIN st.players |-> regenPlayer(st.players[id])]]

\* faulty variant: the snapshot is skipped on odd tick counts
broadcastEverySecondTick(st) ==
    IF st.tickCount % 2 = 1 THEN st
    ELSE emit(st, [type |-> "gameState", tick |-> st.tickCount])

broadcastGameState(st) ==
    emit(st, [type |-> "gameState", tick |-> st.tickCount])

\* gameLoop as the list of the states after each of its stages, in order: the
\* tick count, input, physics, invulnerability, energy, bullets, money, broadcast
Last(log) == log[Len(log)]

beginTick(st) == <<[st EXCEPT !.tickCount = @ + 1, !.events = <<>>]>>
thenInput(log) == Append(log, inputStage(Last(log)))
thenPhysics(log, pos) == Append(log, physicsStage(Last(log), pos))
thenInvulnerability(log) == Append(log, invulnerabilityStage(Last(log)))
thenRegen(log) == Append(log, regenStage(Last(log)))
thenBullets(log, pos) == Append(log, updateBullets(Last(log), pos))
thenMoney(log) == Append(log, updateMoneyPickups(Last(log)))
thenBroadcast(log) == Append(log, broadcastGameState(Last(log)))

gameLoopStages(st, pos) ==
    thenBroadcast(thenMoney(thenBullets(thenRegen(thenInvulnerability(
        thenPhysics(thenInput(beginTick(st)), pos))), pos)))

gameLoop(st, pos) == Last(gameLoopStages(st, pos))

\* =================================================================== state
VARIABLES
    players,        \* gameState.players: socket id -> player record
    order,          \* insertion order of the keys of gameState.players
    bullets,        \* gameState.bullets
    moneyPickups,   \* gameState.moneyPickups
    tickCount,      \* gameState.tickCount
    events,         \* what the last handler or tick emitted, oldest first
    serial,         \* next unique id part for bullets and pickups
    used,           \* socket ids that have connected so far (an id is never reused)
    stageLog,       \* the states gameLoop went through in the last tick (<<>> after a handler)
    last,           \* the last handler run or tick, with its arguments
    fired,          \* every bullet handleShoot has created, as created, oldest first
    hits,           \* the ids of the bullets that have hit a player
    handled,        \* number of socket events handled since the initial state
    inbox,          \* the input events received since the last tick or, when a tick
                    \* has just run, in the interval that preceded it, oldest first
    fault           \* the error a handler has thrown, "none" while the process runs

vars == <<players, order, bullets, moneyPickups, tickCount, events, serial, used,
          stageLog, last, fired, hits, handled, inbox, fault>>

\* --------------------------------------------------------------- bounds
MaxTicks == 2
MaxHandled == 1
\* ticks run beyond a bullet's lifetime; shots start before the last two of them
ExtraTicks == 3

Ids == {"a", "b", "c"}
StartTick == 10 * SCALE

EAST == ANGLE_ZERO
WEST == <<-SCALE, 0>>
DIAGONAL == <<(8 * SCALE) \div 10, (6 * SCALE) \div 10>>
SOUTH == <<0, SCALE>>

\* the pairs of values Math.random() returns to one spawnPlayer call, in 1/SCALE:
\* its least value and its greatest
Randoms == {<<0, 0>>, <<SCALE - 1, SCALE - 1>>}

\* the sequence numbers clients send
SequenceNumbers == {0, 1}

Keys(up, down, left, right, boost, hasAngle, angle, sequence) ==
    [isNull |-> FALSE, up |-> up, down |-> down, left |-> left, right |-> right,
     boost |-> boost, hasAngle |-> hasAngle, angle |-> angle,
     hasSequence |-> TRUE, sequence |-> sequence]

\* the input payloads a client sends, for each sequence number
InputsWith(sequence) ==
    { Keys(FALSE, FALSE, TRUE, FALSE, FALSE, FALSE, EAST, sequence),
      Keys(TRUE, FALSE, TRUE, FALSE, TRUE, TRUE, DIAGONAL, sequence),
      Keys(FALSE, FALSE, FALSE, TRUE, FALSE, TRUE, WEST, sequence) }

Inputs == UNION { InputsWith(sequence) : sequence \in SequenceNumbers } \cup {NullInput}

\* shootData.chargeLevel as sent by a client (7: not a level of the game)
ChargeLevels == {0, 1, 2, 7}

\* ---------------------------------------------------------------- Init
\* The program starts with no player at tick 0.  The model starts later, from
\* states the program reaches by then: two players past their invulnerability
\* near the left wall, a running into it and b drifting down toward a pickup,
\* facing each other within bullet range.
Veteran(id, x, y, vx, vy, angle, energy, dollars, streak, input) ==
    [spawnPlayer(id, <<0, 0>>) EXCEPT
        !.x = x, !.y = y, !.velocityX = vx, !.velocityY = vy, !.angle = angle, !.energy = energy,
        !.dollarValue = dollars, !.invulnerable = FALSE,
        !.invulnerableTicksRemaining = 0, !.killStreak = streak,
        !.bountyMultiplier = multiplierOf(streak),
        !.lastProcessedSequence = input.sequence, !.currentInput = input]

\* <<energy of a, energy of b, kill streak of a, kill streak of b>>
Duels == { <<100 * SCALE, 10 * SCALE, 0, 1>>, <<100 * SCALE, 10 * SCALE, 2, 1>>,
           <<10 * SCALE, 100 * SCALE, 4, 4>>, <<4 * SCALE, 100 * SCALE, 1, 0>> }

InitDuel(d) ==
    /\ players = [id \in {"a", "b"} |->
            IF id = "a"
            THEN Veteran("a", 24 * SCALE, 600 * SCALE, -4 * SCALE, 0, EAST, d[1],
                         2 * SCALE, d[3],
                         Keys(FALSE, FALSE, TRUE, FALSE, FALSE, FALSE, EAST, 0))
            ELSE Veteran("b", 74 * SCALE, 600 * SCALE, 0, 2 * SCALE, WEST, d[2],
                         3 * SCALE, d[4],
                         Keys(FALSE, TRUE, FALSE, FALSE, FALSE, TRUE, WEST, 0))]
    /\ order = <<"a", "b">>
    /\ bullets = <<>>
    /\ moneyPickups = << [id |-> 1, x |-> 74 * SCALE, y |-> (6375 * SCALE) \div 10,
                          amount |-> 5 * SCALE, radius |-> MONEY_RADIUS] >>
    /\ tickCount = StartTick
    /\ events = <<>>
    /\ serial = 2
    /\ used = {"a", "b"}
    /\ stageLog = <<>>
    /\ last = [op |-> "start"]
    /\ fired = <<>>
    /\ hits = {}
    /\ handled = 0
    /\ inbox = [open |-> FALSE, got |-> <<>>]
    /\ fault = "none"

Init == \E d \in Duels : InitDuel(d)

\* ---------------------------------------------------------------- actions
State ==
    [players |-> players, order |-> order, bullets |-> bullets,
     moneyPickups |-> moneyPickups, tickCount |-> tickCount, events |-> <<>>,
     serial |-> serial]

Becomes(st) ==
    /\ players' = st.players
    /\ order' = st.order
    /\ bullets' = st.bullets
    /\ moneyPickups' = st.moneyPickups
    /\ tickCount' = st.tickCount
    /\ events' = st.events
    /\ serial' = st.serial

\* the players killed in a tick, from its events
DiedIn(evs) == { evs[k].playerId : k \in { j \in 1..Len(evs) : evs[j].type = "playerDied" } }

BulletsHitting(evs) ==
    { evs[k].bulletId : k \in { j \in 1..Len(evs) : evs[j].type = "playerHit" } }

\* One call of gameLoop by setInterval.  Math.random() is called only by
\* spawnPlayer, so a tick draws one pair for each player it kills.  Who is
\* killed does not depend on the pairs drawn (a respawned player is
\* invulnerable, so no bullet of the tick reaches it wherever it is), which is
\* why the tick is first run with the least pair for everyone.
RunGameLoop ==
    /\ fault = "none"
    /\ inbox' = [open |-> FALSE, got |-> IF inbox.open THEN inbox.got ELSE <<>>]
    /\ \E first \in {gameLoopStages(State, [id \in DOMAIN players |-> <<0, 0>>])} :
       \E pos \in [DiedIn(Last(first).events) -> Randoms] :
       \E stages \in (IF \A id \in DOMAIN pos : pos[id] = <<0, 0>>
                      THEN {first}
                      ELSE {gameLoopStages(State, [id \in DOMAIN players |->
                                IF id \in DOMAIN pos THEN pos[id] ELSE <<0, 0>>])}) :
          /\ Becomes(Last(stages))
          /\ stageLog' = stages
          /\ hits' = hits \cup BulletsHitting(Last(stages).events)
    /\ last' = [op |-> "tick"]
    /\ UNCHANGED <<used, handled, fired, fault>>

Tick ==
    /\ tickCount < StartTick + MaxTicks
    /\ RunGameLoop

\* a socket event handled, leaving the program in state st
\* the input events of the current interval once op has been handled
Received(op) ==
    IF op.op = "input"
    THEN Append(IF inbox.open THEN inbox.got ELSE <<>>, [id |-> op.id, input |-> op.input])
    ELSE IF inbox.open THEN inbox.got ELSE <<>>

Handler(st, op) ==
    /\ fault = "none"
    /\ handled < MaxHandled
    /\ handled' = handled + 1
    /\ Becomes(st)
    /\ stageLog' = <<>>
    /\ last' = op
    /\ inbox' = [open |-> TRUE, got |-> Received(op)]
    /\ UNCHANGED <<hits, fault>>

\* io.on('connection')
onConnection(st, id, rnd) ==
    emit(emit([st EXCEPT !.players = [i \in DOMAIN st.players \cup {id} |->
                                         IF i = id THEN spawnPlayer(id, rnd) ELSE st.players[i]],
                         !.order = Append(@, id)],
              [type |-> "init", playerId |-> id]),
         [type |-> "playerJoined", playerId |-> id])

Connect(id) ==
    /\ id \notin used
    /\ used' = used \cup {id}
    /\ \E rnd \in Randoms : Handler(onConnection(State, id, rnd), [op |-> "connection", id |-> id])
    /\ UNCHANGED fired

\* faulty variant: an input that is still waiting for its tick is not replaced
onInputKeepsPending(st, id, input) ==
    IF id \in DOMAIN st.players
    THEN IF /\ ~st.players[id].currentInput.isNull
            /\ st.players[id].currentInput.hasSequence
            /\ st.players[id].currentInput.sequence > st.players[id].lastProcessedSequence
         THEN st
         ELSE [st EXCEPT !.players[id].currentInput = input]
    ELSE st

\* socket.on('input')
onInput(st, id, input) ==
    IF id \in DOMAIN st.players
    THEN [st EXCEPT !.players[id].currentInput = input]
    ELSE st

Input(id, input) ==
    /\ id \in DOMAIN players
    /\ Handler(onInput(State, id, input),
               [op |-> "input", id |-> id, input |-> input,
                replaced |-> players[id].currentInput])
    /\ UNCHANGED <<used, fired>>

\* the bullets a handler created, from its events
BulletsSpawned(evs) ==
    SelectSeq(evs, LAMBDA e : e.type = "bulletSpawned")

\* socket.on('shoot')
Shoot(id, chargeLevel) ==
    /\ id \in DOMAIN players
    /\ \E st \in {handleShoot(State, id, chargeLevel)} :
          /\ Handler(st, [op |-> "shoot", id |-> id, chargeLevel |-> chargeLevel])
          /\ fired' = fired \o [k \in 1..Len(BulletsSpawned(st.events)) |->
                                   BulletsSpawned(st.events)[k].bullet]
    /\ UNCHANGED used

\* socket.on('ping'): the pong goes to the one socket, not through io.emit
Ping(id) ==
    /\ id \in DOMAIN players
    /\ Handler(State, [op |-> "ping", id |-> id])
    /\ UNCHANGED <<used, fired>>

\* socket.on('disconnect')
SelectSeq2(seq, id) == SelectSeq(seq, LAMBDA i : i # id)

\* faulty variant: the bullets of the leaving player are removed with it
onDisconnectWithBullets(st, id) ==
    emit([st EXCEPT !.players = [i \in DOMAIN st.players \ {id} |-> st.players[i]],
                    !.order = SelectSeq2(@, id),
                    !.bullets = SelectSeq(@, LAMBDA b : b.ownerId # id)],
         [type |-> "playerLeft", playerId |-> id])

onDisconnect(st, id) ==
    emit([st EXCEPT !.players = [i \in DOMAIN st.players \ {id} |-> st.players[i]],
                    !.order = SelectSeq2(@, id)],
         [type |-> "playerLeft", playerId |-> id])

Disconnect(id) ==
    /\ id \in DOMAIN players
    /\ Handler(onDisconnect(State, id), [op |-> "disconnect", id |-> id])
    /\ UNCHANGED <<used, fired>>

Next ==
    \/ Tick
    \/ \E id \in Ids : Connect(id)
    \/ \E id \in Ids, input \in Inputs : Input(id, input)
    \/ \E id \in Ids, chargeLevel \in ChargeLevels : Shoot(id, chargeLevel)
    \/ \E id \in Ids : Ping(id)
    \/ \E id \in Ids : Disconnect(id)

Spec == Init /\ [][Next]_vars

\* ------------------------------------------------- a bullet's whole lifetime
\* Two players at rest, their last input processed and no key held: a in the north-west corner, aiming along
\* the arena's diagonal or straight south, and b east of it, aiming at it.
\* Shots are fired in the first ticks and the loop runs past MAX_LIFETIME_TICKS.
LifetimeLevels == {0, 1}

InitLifetime ==
    /\ \E angle \in {DIAGONAL, SOUTH} :
          players = [id \in {"a", "b"} |->
              IF id = "a"
              THEN Veteran("a", 100 * SCALE, 50 * SCALE, 0, 0, angle, ENERGY_MAX,
                           BASE_DOLLAR, 0,
                           Keys(FALSE, FALSE, FALSE, FALSE, FALSE, TRUE, angle, 0))
              ELSE Veteran("b", 400 * SCALE, 50 * SCALE, 0, 0, WEST, ENERGY_MAX,
                           BASE_DOLLAR, 0,
                           Keys(FALSE, FALSE, FALSE, FALSE, FALSE, TRUE, WEST, 0))]
    /\ order = <<"a", "b">>
    /\ bullets = <<>>
    /\ moneyPickups = <<>>
    /\ tickCount = StartTick
    /\ events = <<>>
    /\ serial = 1
    /\ used = {"a", "b"}
    /\ stageLog = <<>>
    /\ last = [op |-> "start"]
    /\ fired = <<>>
    /\ hits = {}
    /\ handled = 0
    /\ inbox = [open |-> FALSE, got |-> <<>>]
    /\ fault = "none"

LifetimeTick ==
    /\ tickCount < StartTick + MAX_LIFETIME_TICKS + ExtraTicks
    /\ RunGameLoop

LifetimeShoot(id, chargeLevel) ==
    /\ tickCount < StartTick + ExtraTicks - 1
    /\ Shoot(id, chargeLevel)

NextLifetime ==
    \/ LifetimeTick
    \/ \E id \in {"a", "b"}, chargeLevel \in LifetimeLevels : LifetimeShoot(id, chargeLevel)

SpecLifetime == InitLifetime /\ [][NextLifetime]_vars

\* ------------------------------------------------------ the arena, close up
\* Either one player at rest with two pickups around it, or three players: a
\* and b side by side and c north of the point between them, aiming at it.
PickupOffsets == {30 * SCALE, 35 * SCALE, 60 * SCALE, 90 * SCALE}

Resting(id, x, y, angle, energy) ==
    Veteran(id, x, y, 0, 0, angle, energy, BASE_DOLLAR, 0,
            Keys(FALSE, FALSE, FALSE, FALSE, FALSE, TRUE, angle, 0))

\* a player that was spawned at (x, y) some ticks ago and has not moved
Spawned(id, x, y, ticksRemaining) ==
    [spawnPlayer(id, <<0, 0>>) EXCEPT !.x = x, !.y = y,
                                     !.invulnerableTicksRemaining = ticksRemaining]

Quiet ==
    /\ tickCount = StartTick
    /\ events = <<>>
    /\ stageLog = <<>>
    /\ last = [op |-> "start"]
    /\ fired = <<>>
    /\ hits = {}
    /\ handled = 0
    /\ inbox = [open |-> FALSE, got |-> <<>>]
    /\ fault = "none"

\* one pickup east of the player, at distance d1, and one at distance d2 on the
\* 3-4-5 line to its south-west
InitSolo(d1, d2) ==
    /\ players = [id \in {"a"} |-> Resting("a", 500 * SCALE, 500 * SCALE, EAST, ENERGY_MAX)]
    /\ order = <<"a">>
    /\ bullets = <<>>
    /\ moneyPickups = << [id |-> 1, x |-> 500 * SCALE + d1, y |-> 500 * SCALE,
                          amount |-> 2 * SCALE, radius |-> MONEY_RADIUS],
                         [id |-> 2, x |-> 500 * SCALE - (6 * d2) \div 10,
                          y |-> 500 * SCALE + (8 * d2) \div 10,
                          amount |-> 3 * SCALE, radius |-> MONEY_RADIUS] >>
    /\ serial = 3
    /\ used = {"a"}
    /\ Quiet

CrowdA == { Resting("a", 480 * SCALE, 500 * SCALE, EAST, ENERGY_MAX),
            Resting("a", 480 * SCALE, 500 * SCALE, EAST, 10 * SCALE),
            Spawned("a", 480 * SCALE, 500 * SCALE, INVULNERABLE_TICKS \div 2) }

CrowdB == { Resting("b", 520 * SCALE, 500 * SCALE, WEST, ENERGY_MAX),
            Resting("b", 520 * SCALE, 500 * SCALE, WEST, 10 * SCALE) }

InitCrowd(a, b) ==
    /\ players = [id \in {"a", "b", "c"} |->
                     IF id = "a" THEN a
                     ELSE IF id = "b" THEN b
                     ELSE Resting("c", 500 * SCALE, 459 * SCALE, SOUTH, ENERGY_MAX)]
    /\ order = <<"a", "b", "c">>
    /\ bullets = <<>>
    /\ moneyPickups = <<>>
    /\ serial = 1
    /\ used = {"a", "b", "c"}
    /\ Quiet

InitArena ==
    \/ \E d1 \in PickupOffsets, d2 \in PickupOffsets : d1 # d2 /\ InitSolo(d1, d2)
    \/ \E a \in CrowdA, b \in CrowdB : InitCrowd(a, b)

ArenaShoot(chargeLevel) == "c" \in DOMAIN players /\ Shoot("c", chargeLevel)

NextArena ==
    \/ Tick
    \/ \E chargeLevel \in ChargeLevels : ArenaShoot(chargeLevel)

SpecArena == InitArena /\ [][NextArena]_vars

\* ------------------------------------------------- the ticks after a spawn
\* Player a rests in the north-west corner aiming south; c has just connected
\* and was spawned 50 units south of it.  a shoots around the time c's
\* invulnerability runs out.
Holds(st) ==
    /\ players = st.players
    /\ order = st.order
    /\ bullets = st.bullets
    /\ moneyPickups = st.moneyPickups
    /\ tickCount = st.tickCount
    /\ events = st.events
    /\ serial = st.serial

Alone(player) ==
    [players |-> [id \in {player.id} |-> player], order |-> <<player.id>>, bullets |-> <<>>,
     moneyPickups |-> <<>>, tickCount |-> StartTick, events |-> <<>>, serial |-> 1]

InitSpawn ==
    /\ Holds(onConnection(Alone(Resting("a", 100 * SCALE, 50 * SCALE, SOUTH, ENERGY_MAX)),
                          "c", <<0, 0>>))
    /\ used = {"a", "c"}
    /\ stageLog = <<>>
    /\ last = [op |-> "connection", id |-> "c"]
    /\ fired = <<>>
    /\ hits = {}
    /\ handled = 0
    /\ inbox = [open |-> TRUE, got |-> <<>>]
    /\ fault = "none"

SpawnTick ==
    /\ tickCount < StartTick + INVULNERABLE_TICKS + ExtraTicks
    /\ RunGameLoop

SpawnShoot(chargeLevel) ==
    /\ tickCount + ExtraTicks >= StartTick + INVULNERABLE_TICKS
    /\ Shoot("a", chargeLevel)

NextSpawn ==
    \/ SpawnTick
    \/ \E chargeLevel \in ChargeLevels : SpawnShoot(chargeLevel)

SpecSpawn == InitSpawn /\ [][NextSpawn]_vars

\* ------------------------------------------------------ events of all kinds
\* Players a and b side by side, b aiming at a; c has connected and left.  The
\* run starts there, or after a has sent a fresh input, or after b has fired.
\* Then come inputs of a, well-formed or not, shots, disconnections and events
\* of the socket that has left.
Pair(energy) ==
    [players |-> [id \in {"a", "b"} |->
                     IF id = "a" THEN Resting("a", 480 * SCALE, 500 * SCALE, EAST, energy)
                     ELSE Resting("b", 520 * SCALE, 500 * SCALE, WEST, ENERGY_MAX)],
     order |-> <<"a", "b">>, bullets |-> <<>>, moneyPickups |-> <<>>,
     tickCount |-> StartTick, events |-> <<>>, serial |-> 1]

FreshInputs == { Keys(FALSE, FALSE, TRUE, FALSE, FALSE, FALSE, EAST, 1),
                 Keys(TRUE, FALSE, TRUE, FALSE, TRUE, TRUE, DIAGONAL, 2) }

\* what the client of a sends: fresh inputs, a stale one, one without a
\* sequence field and no payload at all
EventInputs ==
    FreshInputs \cup { Keys(FALSE, FALSE, FALSE, TRUE, FALSE, TRUE, WEST, 0),
                       [Keys(FALSE, TRUE, FALSE, FALSE, TRUE, FALSE, EAST, 0)
                           EXCEPT !.hasSequence = FALSE],
                       NullInput }

InitPair(energy) ==
    /\ Holds(Pair(energy))
    /\ stageLog = <<>>
    /\ last = [op |-> "start"]
    /\ fired = <<>>
    /\ inbox = [open |-> FALSE, got |-> <<>>]

InitAfterInput(energy, input) ==
    /\ Holds(onInput(Pair(energy), "a", input))
    /\ stageLog = <<>>
    /\ last = [op |-> "input", id |-> "a", input |-> input,
               replaced |-> Pair(energy).players["a"].currentInput]
    /\ fired = <<>>
    /\ inbox = [open |-> TRUE, got |-> <<[id |-> "a", input |-> input]>>]

InitAfterShot(energy) ==
    /\ Holds(handleShoot(Pair(energy), "b", 0))
    /\ stageLog = <<>>
    /\ last = [op |-> "shoot", id |-> "b", chargeLevel |-> 0]
    /\ fired = <<handleShoot(Pair(energy), "b", 0).bullets[1]>>
    /\ inbox = [open |-> TRUE, got |-> <<>>]

InitEvents ==
    /\ \E energy \in {ENERGY_MAX, 10 * SCALE} :
          \/ InitPair(energy)
          \/ \E input \in FreshInputs : InitAfterInput(energy, input)
          \/ InitAfterShot(energy)
    /\ used = {"a", "b", "c"}
    /\ hits = {}
    /\ handled = 0
    /\ fault = "none"

\* handleShoot reads shootData.chargeLevel once the player is found: without a
\* payload that read throws a TypeError
handleShootThrows(st, playerId, hasPayload) ==
    playerId \in DOMAIN st.players /\ ~hasPayload

\* socket.on('shoot') with no payload; nothing catches the error
ShootWithoutPayload(id) ==
    /\ id \in used
    /\ IF handleShootThrows(State, id, FALSE)
       THEN /\ fault = "none"
            /\ handled < MaxHandled
            /\ handled' = handled + 1
            /\ fault' = "TypeError"
            /\ events' = <<>>
            /\ stageLog' = <<>>
            /\ last' = [op |-> "shoot", id |-> id, chargeLevel |-> -1]
            /\ inbox' = [open |-> TRUE, got |-> Received([op |-> "shoot"])]
            /\ UNCHANGED <<players, order, bullets, moneyPickups, tickCount, serial, hits>>
       ELSE Handler(State, [op |-> "shoot", id |-> id, chargeLevel |-> -1])
    /\ UNCHANGED <<used, fired>>

\* an input event of a socket whose player is gone
LateInput(id, input) ==
    /\ id \in used \ DOMAIN players
    /\ Handler(onInput(State, id, input),
               [op |-> "input", id |-> id, input |-> input, replaced |-> NullInput])
    /\ UNCHANGED <<used, fired>>

\* a shoot event of a socket whose player is gone
LateShoot(id, chargeLevel) ==
    /\ id \in used \ DOMAIN players
    /\ Handler(handleShoot(State, id, chargeLevel),
               [op |-> "shoot", id |-> id, chargeLevel |-> chargeLevel])
    /\ UNCHANGED <<used, fired>>

NextEvents ==
    \/ Tick
    \/ \E input \in EventInputs : Input("a", input)
    \/ \E chargeLevel \in {0, 2} : Shoot("b", chargeLevel)
    \/ \E id \in Ids : ShootWithoutPayload(id)
    \/ \E id \in {"a", "b"} : Disconnect(id)
    \/ \E id \in Ids : LateInput(id, CHOOSE input \in FreshInputs : TRUE)
    \/ \E id \in Ids : LateShoot(id, 0)

SpecEvents == InitEvents /\ [][NextEvents]_vars

\* ------------------------------------------------------- a run into the wall
\* Player a rests near the west wall with a kill streak of two, aiming east
\* along the line y = 100.  c connects and is spawned in a corner of the spawn
\* region.  In the north-west corner it waits or not until its invulnerability
\* has run out and then holds the left key, one input per tick, until it is one
\* or two ticks from the wall; in the south-east corner it holds the left key
\* and the boost key for as long.
NoDeaths(st) == [id \in DOMAIN st.players |-> <<0, 0>>]

\* n times: an input event of id with these keys held and the next sequence
\* number, then a call of gameLoop
RECURSIVE HeldFor(_, _, _, _, _)
HeldFor(st, id, keys, sequence, n) ==
    IF n = 0 \/ st.tickCount < 0 THEN st
    ELSE HeldFor(gameLoop(onInput(st, id, [keys EXCEPT !.sequence = sequence]), NoDeaths(st)),
                 id, keys, sequence + 1, n - 1)

\* the state st is in when player id connected INVULNERABLE_TICKS ticks earlier
\* than it did and waited that long before its first input: the ticks of the
\* wait count down its invulnerability and change nothing else
Waited(st, id, wait) ==
    IF wait = 0 THEN st
    ELSE [st EXCEPT !.tickCount = @ + INVULNERABLE_TICKS,
                    !.players[id].invulnerable = FALSE,
                    !.players[id].invulnerableTicksRemaining = 0]

\* whether c waited before it started, and the ticks it has held the keys
WaitTicks == {0, INVULNERABLE_TICKS}
HeldTicks == {26, 27}

\* the sequence number of the inputs c sends next
NextSequence == 50

LeftKey == Keys(FALSE, FALSE, TRUE, FALSE, FALSE, FALSE, EAST, NextSequence)
LeftKeyBoost == Keys(FALSE, FALSE, TRUE, FALSE, TRUE, FALSE, EAST, NextSequence)

WallInputs == { LeftKey, LeftKeyBoost,
                Keys(FALSE, FALSE, FALSE, TRUE, FALSE, FALSE, EAST, NextSequence) }

Sentinel ==
    Alone(Veteran("a", 40 * SCALE, 100 * SCALE, 0, 0, EAST, ENERGY_MAX, BASE_DOLLAR, 2,
                  Keys(FALSE, FALSE, FALSE, FALSE, FALSE, TRUE, EAST, 0)))

\* the runs of c: from the north-west corner, and boosting from the south-east
Runs ==
    { Waited(HeldFor(onConnection(Sentinel, "c", <<0, 0>>), "c", LeftKey, 1, held), "c", wait) :
        wait \in WaitTicks, held \in HeldTicks }
    \cup { HeldFor(onConnection(Sentinel, "c", <<SCALE - 1, SCALE - 1>>),
                   "c", LeftKeyBoost, 1, held) : held \in HeldTicks }

InitWall ==
    /\ \E st \in Runs : Holds([st EXCEPT !.events = <<>>])
    /\ used = {"a", "c"}
    /\ stageLog = <<>>
    /\ last = [op |-> "start"]
    /\ fired = <<>>
    /\ hits = {}
    /\ handled = 0
    /\ inbox = [open |-> FALSE, got |-> <<>>]
    /\ fault = "none"

\* at most MaxTicks ticks past the longest run
WallTick ==
    /\ \E wait \in WaitTicks : tickCount - StartTick - wait \in 0..(27 + MaxTicks - 1)
    /\ RunGameLoop

NextWall ==
    \/ WallTick
    \/ \E input \in WallInputs : Input("c", input)
    \/ \E chargeLevel \in ChargeLevels : Shoot("a", chargeLevel)

SpecWall == InitWall /\ [][NextWall]_vars

\* ------------------------------------------------------------------ a melee
\* Players a and b side by side with a pickup within reach of both, a aiming at
\* b, and c north of b aiming at it too.  The run starts there or after a has
\* fired; then c fires and the loop runs.
Melee(energy, first) ==
    [players |-> [id \in {"a", "b", "c"} |->
                     IF id = "a" THEN Resting("a", 480 * SCALE, 500 * SCALE, EAST, ENERGY_MAX)
                     ELSE IF id = "b"
                     THEN Veteran("b", 520 * SCALE, 500 * SCALE, 0, 0, WEST, energy,
                                  3 * SCALE, 1,
                                  Keys(FALSE, FALSE, FALSE, FALSE, FALSE, TRUE, WEST, 0))
                     ELSE Resting("c", 520 * SCALE, 455 * SCALE, SOUTH, ENERGY_MAX)],
     order |-> IF first = "a" THEN <<"a", "b", "c">> ELSE <<"b", "a", "c">>,
     bullets |-> <<>>,
     moneyPickups |-> << [id |-> 1, x |-> 500 * SCALE, y |-> 520 * SCALE,
                          amount |-> 2 * SCALE, radius |-> MONEY_RADIUS] >>,
     tickCount |-> StartTick, events |-> <<>>, serial |-> 2]

InitBrawl(st) ==
    /\ Holds(st)
    /\ last = [op |-> "start"]
    /\ fired = <<>>
    /\ inbox = [open |-> FALSE, got |-> <<>>]

InitAfterVolley(st, chargeLevel) ==
    /\ Holds(handleShoot(st, "a", chargeLevel))
    /\ last = [op |-> "shoot", id |-> "a", chargeLevel |-> chargeLevel]
    /\ fired = <<handleShoot(st, "a", chargeLevel).bullets[1]>>
    /\ inbox = [open |-> TRUE, got |-> <<>>]

InitMelee ==
    /\ \E energy \in {ENERGY_MAX, 10 * SCALE}, first \in {"a", "b"} :
          \/ InitBrawl(Melee(energy, first))
          \/ \E chargeLevel \in {0, 2} : InitAfterVolley(Melee(energy, first), chargeLevel)
    /\ used = {"a", "b", "c"}
    /\ stageLog = <<>>
    /\ hits = {}
    /\ handled = 0
    /\ fault = "none"

NextMelee ==
    \/ Tick
    \/ \E chargeLevel \in ChargeLevels : Shoot("c", chargeLevel)

SpecMelee == InitMelee /\ [][NextMelee]_vars

\* ------------------------------------------------------ after the last input
\* One player in the middle of the arena has just sent its last input; from
\* then on only the loop runs, for as long as a tick still changes the player.
RestInputs == { Keys(FALSE, FALSE, TRUE, FALSE, FALSE, FALSE, EAST, 1),
                Keys(TRUE, FALSE, TRUE, FALSE, TRUE, TRUE, DIAGONAL, 1),
                Keys(FALSE, FALSE, FALSE, FALSE, TRUE, FALSE, EAST, 0),
                NullInput }

RestEnergies == {ENERGY_MAX, 99 * SCALE, 0}

InitRest ==
    /\ \E energy \in RestEnergies, input \in RestInputs :
          /\ Holds(onInput(Alone(Resting("a", 500 * SCALE, 500 * SCALE, EAST, energy)),
                           "a", input))
          /\ last = [op |-> "input", id |-> "a", input |-> input,
                     replaced |-> Resting("a", 500 * SCALE, 500 * SCALE, EAST, energy)
                                      .currentInput]
          /\ inbox = [open |-> TRUE, got |-> <<[id |-> "a", input |-> input]>>]
    /\ used = {"a"}
    /\ stageLog = <<>>
    /\ fired = <<>>
    /\ hits = {}
    /\ handled = 0
    /\ fault = "none"

\* what a call of gameLoop would change in a player: a stored input newer than
\* the last processed one, a velocity to damp, an invulnerability to count
\* down, energy to regenerate
Stirring(player) ==
    \/ /\ ~player.currentInput.isNull
       /\ player.currentInput.hasSequence
       /\ player.currentInput.sequence > player.lastProcessedSequence
    \/ player.velocityX # 0
    \/ player.velocityY # 0
    \/ player.invulnerable /\ player.invulnerableTicksRemaining > 0
    \/ ~regenBlocked(player) /\ player.energy < ENERGY_MAX

\* no call of gameLoop changes anything but the tick counter any more
Settled ==
    /\ bullets = <<>>
    /\ moneyPickups = <<>>
    /\ \A id \in DOMAIN players : ~Stirring(players[id])

\* a call of gameLoop while one still changes a player
RestTick ==
    /\ ~Settled
    /\ RunGameLoop

NextRest == RestTick

\* what every RestTick step does to the tick counter, and no other step does;
\* it is enabled exactly when RestTick is
Clock == ~Settled /\ tickCount' = tickCount + 1

\* setInterval calls gameLoop again and again: a call that is due is made
SpecRest == InitRest /\ [][NextRest]_vars /\ WF_tickCount(Clock)

\* ---------------------------------------------------- the pull of a pickup
\* One player at rest in the middle of the arena, one pickup due east of it and
\* one due south; only the loop runs, for as long as a tick still changes
\* something.  On the axes the pull is exact in the program's arithmetic too:
\* cos and sin of atan2 are -1 or 0 there, up to a term the addition absorbs.
PullOffsets == {30 * SCALE, 35 * SCALE, 36 * SCALE, (145 * SCALE) \div 4,
                (319 * SCALE) \div 4, 80 * SCALE}

PullAmounts == <<2 * SCALE, 3 * SCALE>>

InitPull ==
    /\ \E d1 \in PullOffsets, d2 \in PullOffsets :
          moneyPickups = << [id |-> 1, x |-> 500 * SCALE + d1, y |-> 500 * SCALE,
                             amount |-> PullAmounts[1], radius |-> MONEY_RADIUS],
                            [id |-> 2, x |-> 500 * SCALE, y |-> 500 * SCALE + d2,
                             amount |-> PullAmounts[2], radius |-> MONEY_RADIUS] >>
    /\ players = [id \in {"a"} |-> Resting("a", 500 * SCALE, 500 * SCALE, EAST, ENERGY_MAX)]
    /\ order = <<"a">>
    /\ bullets = <<>>
    /\ serial = 3
    /\ used = {"a"}
    /\ Quiet

\* what a call of updateMoneyPickups would do something to: a pickup some
\* player pulls or collects
InReach(money) ==
    \E id \in DOMAIN players :
        \/ inMagneticRange(getDistanceSq(players[id].x, players[id].y, money.x, money.y))
        \/ inPickupRange(getDistanceSq(players[id].x, players[id].y, money.x, money.y),
                         money)

\* no call of gameLoop changes anything but the tick counter any more
AtEase ==
    /\ bullets = <<>>
    /\ \A i \in DOMAIN moneyPickups : ~InReach(moneyPickups[i])
    /\ \A id \in DOMAIN players : ~Stirring(players[id])

\* a call of gameLoop while one still changes something
PullTick ==
    /\ ~AtEase
    /\ RunGameLoop

NextPull == PullTick

\* what every PullTick step does to the tick counter, and no other step does;
\* it is enabled exactly when PullTick is
PullClock == ~AtEase /\ tickCount' = tickCount + 1

\* setInterval calls gameLoop again and again: a call that is due is made
SpecPull == InitPull /\ [][NextPull]_vars /\ WF_tickCount(PullClock)

\* ------------------------------------------- the end of a spawn protection
\* As in the run into the wall, with c connected some ticks before it starts
\* to hold the left key, so that its invulnerability runs out around the time
\* it reaches the wall; b may connect meanwhile.

\* the state st is in when player id, just connected, has sent nothing for
\* wait ticks (fewer than INVULNERABLE_TICKS): the ticks of the wait count down
\* its invulnerability and change nothing else
Elapsed(st, id, wait) ==
    [st EXCEPT !.tickCount = @ + wait,
               !.players[id].invulnerableTicksRemaining = @ - wait]

ShieldWaits == {0, INVULNERABLE_TICKS - 28, INVULNERABLE_TICKS - 27}

InitShield ==
    /\ \E wait \in ShieldWaits, held \in HeldTicks :
          Holds([HeldFor(Elapsed(onConnection(Sentinel, "c", <<0, 0>>), "c", wait),
                         "c", LeftKey, 1, held) EXCEPT !.events = <<>>])
    /\ used = {"a", "c"}
    /\ stageLog = <<>>
    /\ last = [op |-> "start"]
    /\ fired = <<>>
    /\ hits = {}
    /\ handled = 0
    /\ inbox = [open |-> FALSE, got |-> <<>>]
    /\ fault = "none"

\* at most MaxTicks ticks past the longest run
ShieldTick ==
    /\ \E wait \in ShieldWaits : tickCount - StartTick - wait \in 0..(27 + MaxTicks - 1)
    /\ RunGameLoop

NextShield ==
    \/ ShieldTick
    \/ \E input \in WallInputs : Input("c", input)
    \/ Connect("b")

SpecShield == InitShield /\ [][NextShield]_vars

\* ================================================================== claims
Events(type, evs) == SelectSeq(evs, LAMBDA e : e.type = type)

\* the stages of stageLog
AtStart == 1
AfterInput == 2
AfterPhysics == 3
AfterInvulnerability == 4
AfterRegen == 5
AfterBullets == 6
AfterMoney == 7
AfterBroadcast == 8

StrictlyInside(x, y) ==
    /\ x - 20 * SCALE > 0
    /\ x + 20 * SCALE < 1600 * SCALE
    /\ y - 20 * SCALE > 0
    /\ y + 20 * SCALE < 1200 * SCALE

\* a wall death of the last tick: the dropped pickup lies where the player touched
WallDeaths == SelectSeq(events, LAMBDA e : e.type = "playerDied" /\ e.killerId = NoKiller)

\* C1: in every state a tick leaves (and every state between ticks) every live
\* player is strictly inside the arena with its radius, and every player that
\* died on a wall in the tick is back inside it.
C1_PlayersInsideArena ==
    /\ \A id \in DOMAIN players : StrictlyInside(players[id].x, players[id].y)
    /\ \A k \in DOMAIN WallDeaths :
          /\ ~StrictlyInside(WallDeaths[k].moneyDrop.x, WallDeaths[k].moneyDrop.y)
          /\ StrictlyInside(WallDeaths[k].respawn.x, WallDeaths[k].respawn.y)

\* a tick has just killed a player on the wall, and it is live, inside the arena
C1_Witness ==
    /\ last.op = "tick"
    /\ \E k \in DOMAIN WallDeaths :
          /\ WallDeaths[k].playerId \in DOMAIN players
          /\ WallDeaths[k].moneyDrop.x - 20 * SCALE <= 0
          /\ players[WallDeaths[k].playerId].x >= 100 * SCALE

EnergyInRange(ps) ==
    \A id \in DOMAIN ps : 0 <= ps[id].energy /\ ps[id].energy <= 100 * SCALE

\* C2: every live player's energy is within 0..ENERGY.MAX after each stage of
\* every tick (input, physics, invulnerability and energy bookkeeping, combat,
\* economy) and after every handler run between ticks.
C2_EnergyInRange ==
    /\ EnergyInRange(players)
    /\ \A k \in DOMAIN stageLog : k >= AfterInput => EnergyInRange(stageLog[k].players)

\* a tick in which a bullet took a player's energy below zero, killing it, and
\* one in which the player survived the hit
C2_Witness ==
    /\ last.op = "tick"
    /\ \E k \in DOMAIN events :
          /\ events[k].type = "playerHit"
          /\ events[k].energy < 0
          /\ events[k].targetId \in DOMAIN players
          /\ players[events[k].targetId].energy = 100 * SCALE

\* the fields of a player that C3 speaks of
Observed(player) ==
    <<player.velocityX, player.velocityY, player.x, player.y, player.angle,
      player.energy, player.isBoosting, player.lastProcessedSequence>>

\* the observed fields of every player one tick after state st
AfterOneTick(st) ==
    [id \in DOMAIN st.players |->
        Observed(gameLoop(st, [i \in DOMAIN st.players |-> <<0, 0>>]).players[id])]

\* the input handler has just stored an input that is not newer than the
\* player's last processed one
StaleInputReceived ==
    /\ last.op = "input"
    /\ ~last.input.isNull
    /\ last.input.hasSequence
    /\ last.input.sequence <= players[last.id].lastProcessedSequence

\* C3: an input whose sequence number is at most the player's last processed one
\* changes nothing: the next tick leaves every player's velocity, position,
\* angle, energy, boosting flag and last processed sequence as it would have
\* been had the input not arrived.
C3_StaleInputChangesNothing ==
    StaleInputReceived =>
        AfterOneTick(State) =
            AfterOneTick([State EXCEPT !.players[last.id].currentInput = last.replaced])

Deaths(evs) == Events("playerDied", evs)

DeathPosition(death) ==
    IF death.killerId = NoKiller
    THEN integratePlayer(stageLog[AfterInput].players[death.playerId])
    ELSE stageLog[AfterRegen].players[death.playerId]

\* C4: each death of a tick, by wall or by bullet, appends exactly one pickup,
\* carrying the victim's currency value and lying where the victim died; the
\* deaths add or change no other pickup (the list when the combat stage ends is
\* the list at the start of the tick followed by the drops, in order).
C4_DeathDropsCurrency ==
    stageLog # <<>> =>
        LET deaths == Deaths(stageLog[AfterBullets].events)
        IN  /\ stageLog[AfterBullets].moneyPickups =
                  stageLog[AtStart].moneyPickups
                      \o [k \in 1..Len(deaths) |-> deaths[k].moneyDrop]
            /\ \A k \in 1..Len(deaths) :
                  /\ deaths[k].moneyDrop.amount =
                        stageLog[AtStart].players[deaths[k].playerId].dollarValue
                  /\ deaths[k].moneyDrop.x = DeathPosition(deaths[k]).x
                  /\ deaths[k].moneyDrop.y = DeathPosition(deaths[k]).y

\* a bullet has killed a player worth more than the baseline, and its drop is live
C4_Witness ==
    /\ last.op = "tick"
    /\ \E k \in DOMAIN events :
          /\ events[k].type = "playerDied"
          /\ events[k].killerId # NoKiller
          /\ events[k].moneyDrop.amount > 1 * SCALE
          /\ \E i \in DOMAIN moneyPickups : moneyPickups[i] = events[k].moneyDrop

RECURSIVE CollectedBy(_, _, _)
CollectedBy(id, picks, pickups) ==
    IF picks = <<>> THEN 0
    ELSE (IF Head(picks).playerId = id
          THEN LET taken == SelectSeq(pickups, LAMBDA m : m.id = Head(picks).moneyId)
               IN  IF taken = <<>> THEN 0 ELSE taken[1].amount
          ELSE 0) + CollectedBy(id, Tail(picks), pickups)

Ledger(pickups) == [k \in 1..Len(pickups) |-> <<pickups[k].id, pickups[k].amount>>]

\* C5: in the economy stage each collection adds exactly the pickup's amount to
\* the collector, removes exactly that pickup, and leaves the other players'
\* currency and the other pickups' amounts as they were.
C5_CollectionTransfersAmount ==
    stageLog # <<>> =>
        LET before == stageLog[AfterBullets]
            after == stageLog[AfterMoney]
            picks == Events("moneyPickedUp", after.events)
            picked == { picks[k].moneyId : k \in 1..Len(picks) }
        IN  /\ Cardinality(picked) = Len(picks)
            /\ \A m \in picked : \E i \in DOMAIN before.moneyPickups :
                                    before.moneyPickups[i].id = m
            /\ Ledger(after.moneyPickups) =
                  Ledger(SelectSeq(before.moneyPickups, LAMBDA m : m.id \notin picked))
            /\ \A id \in DOMAIN after.players :
                  after.players[id].dollarValue =
                      before.players[id].dollarValue
                          + CollectedBy(id, picks, before.moneyPickups)

\* a tick in which a player collected a pickup
C5_Witness ==
    /\ last.op = "tick"
    /\ \E k \in DOMAIN events :
          /\ events[k].type = "moneyPickedUp"
          /\ events[k].playerId \in DOMAIN players
          /\ players[events[k].playerId].dollarValue = events[k].newDollarValue
          /\ events[k].newDollarValue > 3 * SCALE

\* the kill streak that the deaths of one tick, in order, leave a player with
RECURSIVE StreakAfter(_, _, _)
StreakAfter(streak, id, deaths) ==
    IF deaths = <<>> THEN streak
    ELSE StreakAfter(IF Head(deaths).playerId = id THEN 0
                     ELSE IF Head(deaths).killerId = id THEN streak + 1
                     ELSE streak,
                     id, Tail(deaths))

StepFunction(killStreak) ==
    CASE killStreak = 0 -> 1 * SCALE
      [] killStreak \in {1, 2} -> (15 * SCALE) \div 10
      [] killStreak \in {3, 4} -> 2 * SCALE
      [] killStreak >= 5 -> 3 * SCALE

\* C7: every live player's bountyMultiplier is the step function of its
\* killStreak: 0 -> 1.0, 1 or 2 -> 1.5, 3 or 4 -> 2.0, 5 or more -> 3.0.
C7_MultiplierIsStepOfStreak ==
    \A id \in DOMAIN players :
        players[id].bountyMultiplier = StepFunction(players[id].killStreak)

\* a kill has just taken a player over the 4/5 boundary
C7_Witness ==
    /\ last.op = "tick"
    /\ \E id \in DOMAIN players :
          /\ players[id].killStreak = 5
          /\ stageLog[AtStart].players[id].killStreak = 4
          /\ players[id].bountyMultiplier = 3 * SCALE

ReachesBoundary(player) ==
    \/ player.x + RADIUS >= ARENA_WIDTH
    \/ player.x - RADIUS <= 0
    \/ player.y + RADIUS >= ARENA_HEIGHT
    \/ player.y - RADIUS <= 0

DiedAtWall(id, evs) ==
    \E k \in DOMAIN evs : /\ evs[k].type = "playerDied"
                          /\ evs[k].playerId = id
                          /\ evs[k].killerId = NoKiller

\* C8: the physics stage of a tick kills a player exactly when its position
\* after integration has position + RADIUS reaching a wall: it does so in the
\* first such tick and never while the integrated position is strictly inside.
C8_WallDeathExactlyAtContact ==
    stageLog # <<>> =>
        \A id \in DOMAIN stageLog[AfterInput].players :
            ReachesBoundary(integratePlayer(stageLog[AfterInput].players[id]))
                <=> DiedAtWall(id, stageLog[AfterPhysics].events)

\* a player pushing outward died in the tick that put its edge exactly on the wall
C8_Witness ==
    /\ last.op = "tick"
    /\ \E id \in DOMAIN stageLog[AfterInput].players :
          /\ stageLog[AfterInput].players[id].currentInput.left
          /\ stageLog[AtStart].players[id].x - RADIUS > 0
          /\ integratePlayer(stageLog[AfterInput].players[id]).x - RADIUS = 0
          /\ DiedAtWall(id, events)

Cost(chargeLevel) ==
    CASE chargeLevel = 0 -> 5 * SCALE
      [] chargeLevel = 1 -> 10 * SCALE
      [] chargeLevel = 2 -> 15 * SCALE

\* C9: a shoot request for charge level 0, 1 or 2 whose profile costs more
\* energy than the player has is rejected silently: no bullet is added, no
\* energy is taken, no event is emitted and nothing else changes.
C9_UnaffordableShotRejected ==
    [][(/\ last'.op = "shoot"
        /\ last'.chargeLevel \in {0, 1, 2}
        /\ last'.id \in DOMAIN players
        /\ Cost(last'.chargeLevel) > players[last'.id].energy)
       => /\ players' = players
          /\ bullets' = bullets
          /\ fired' = fired
          /\ events' = <<>>
          /\ UNCHANGED <<order, moneyPickups, tickCount, serial>>]_vars

\* charge level 2 (cost 15) was requested with energy 10 and nothing was fired
C9_Witness ==
    /\ last.op = "shoot"
    /\ last.chargeLevel = 2
    /\ players[last.id].energy = 10 * SCALE
    /\ bullets = <<>>
    /\ events = <<>>

Live(bulletId) == \E i \in DOMAIN bullets : bullets[i].id = bulletId

\* where a bullet is after n ticks of straight flight
InsideAfter(bullet, n) ==
    /\ bullet.x + n * bullet.vx >= 0
    /\ bullet.x + n * bullet.vx <= ARENA_WIDTH
    /\ bullet.y + n * bullet.vy >= 0
    /\ bullet.y + n * bullet.vy <= ARENA_HEIGHT

StaysInside(bullet) == \A n \in 1..300 : InsideAfter(bullet, n)

\* C10: a bullet created when the tick counter is T that hits no player and
\* stays inside the arena is in the live list up to the end of tick T+299 and
\* is absent from it from the end of tick T+301 on.
C10_BulletLivesThreeHundredTicks ==
    \A k \in DOMAIN fired :
        (fired[k].id \notin hits /\ StaysInside(fired[k])) =>
            /\ tickCount - fired[k].createdAtTick <= 299 => Live(fired[k].id)
            /\ tickCount - fired[k].createdAtTick >= 301 => ~Live(fired[k].id)

\* the end of tick T+301 for a bullet that flew untouched along the diagonal
C10_Witness ==
    /\ last.op = "tick"
    /\ \E k \in DOMAIN fired :
          /\ fired[k].id \notin hits
          /\ StaysInside(fired[k])
          /\ tickCount = fired[k].createdAtTick + 301
          /\ ~Live(fired[k].id)
          /\ \E j \in DOMAIN events : /\ events[j].type = "bulletRemoved"
                                      /\ events[j].bulletId = fired[k].id

\* the one player of a stage state, when it has exactly one
Only(ps) == CHOOSE id \in DOMAIN ps : TRUE

DistSqTo(player, money) == getDistanceSq(player.x, player.y, money.x, money.y)

WithinMagneticRadius(player, money) == DistSqTo(player, money) < (80 * SCALE) * (80 * SCALE)

InsideCollection(player, money) ==
    DistSqTo(player, money) < (20 * SCALE + money.radius) * (20 * SCALE + money.radius)

OutsideCollection(player, money) ==
    DistSqTo(player, money) > (20 * SCALE + money.radius) * (20 * SCALE + money.radius)

PickupsWith(id, pickups) == SelectSeq(pickups, LAMBDA m : m.id = id)

\* pickup now is pickup was, moved toward the player by at most the pull strength
MovedToward(player, was, now) ==
    /\ now.id = was.id /\ now.amount = was.amount
    /\ DistSqTo(player, now) < DistSqTo(player, was)
    /\ (now.x - was.x) * (now.x - was.x) + (now.y - was.y) * (now.y - was.y)
           <= (SCALE \div 2) * (SCALE \div 2)

\* C11 as stated: with one player, the economy stage moves every pickup within
\* the magnetic radius toward the player, the one inside collection range
\* included (the pull applies to it before it is removed).
C11_BothPickupsPulled ==
    (stageLog # <<>> /\ Cardinality(DOMAIN stageLog[AfterBullets].players) = 1) =>
        LET before == stageLog[AfterBullets]
            player == before.players[Only(before.players)]
        IN  \A i \in DOMAIN before.moneyPickups :
                (/\ WithinMagneticRadius(player, before.moneyPickups[i])
                 /\ \/ InsideCollection(player, before.moneyPickups[i])
                    \/ OutsideCollection(player, before.moneyPickups[i]))
                => inMagneticRange(DistSqTo(player, before.moneyPickups[i]))

\* C11, amended: with one player, the economy stage removes every pickup that
\* is inside collection range, without moving it, and moves every pickup that
\* is within the magnetic radius but outside collection range toward the
\* player; that pickup remains live with its amount.
C11_PullOutsideCollectInside ==
    (stageLog # <<>> /\ Cardinality(DOMAIN stageLog[AfterBullets].players) = 1) =>
        LET before == stageLog[AfterBullets]
            after == stageLog[AfterMoney]
            player == before.players[Only(before.players)]
        IN  \A i \in DOMAIN before.moneyPickups :
                LET was == before.moneyPickups[i]
                    now == PickupsWith(was.id, after.moneyPickups)
                IN  /\ InsideCollection(player, was) =>
                          /\ now = <<>>
                          /\ ~inMagneticRange(DistSqTo(player, was))
                    /\ (WithinMagneticRadius(player, was) /\ OutsideCollection(player, was)) =>
                          /\ Len(now) = 1
                          /\ MovedToward(player, was, now[1])

\* one player, two pickups within the magnetic radius, one inside collection
\* range and one outside: after the stage only the second is live, nearer
C11_Witness ==
    /\ last.op = "tick"
    /\ DOMAIN stageLog[AfterBullets].players = {"a"}
    /\ Len(stageLog[AfterBullets].moneyPickups) = 2
    /\ \E i, j \in {1, 2} :
          LET player == stageLog[AfterBullets].players["a"]
              inner == stageLog[AfterBullets].moneyPickups[i]
              outer == stageLog[AfterBullets].moneyPickups[j]
          IN  /\ InsideCollection(player, inner)
              /\ WithinMagneticRadius(player, outer) /\ OutsideCollection(player, outer)
              /\ Len(moneyPickups) = 1
              /\ MovedToward(player, outer, moneyPickups[1])

Hits(evs) == Events("playerHit", evs)

\* C12: in one combat stage a bullet damages at most one player: no two
\* playerHit events of a tick come from the same bullet, and only the hit
\* player loses energy to it.
C12_OneHitPerBullet ==
    stageLog # <<>> =>
        \A i, j \in DOMAIN Hits(events) :
            Hits(events)[i].bulletId = Hits(events)[j].bulletId => i = j

DiedBefore(id, k) ==
    \E j \in 1..(k - 1) : events[j].type = "playerDied" /\ events[j].playerId = id

\* C13: in every playerHit event the target is not the shooter, and the target
\* was not invulnerable at the moment of the hit: its flag was clear when the
\* combat stage began and it had not been respawned earlier in the tick.
C13_NoHitOnOwnerOrInvulnerable ==
    stageLog # <<>> =>
        \A k \in DOMAIN events :
            events[k].type = "playerHit" =>
                /\ events[k].targetId # events[k].shooterId
                /\ ~stageLog[AfterRegen].players[events[k].targetId].invulnerable
                /\ ~DiedBefore(events[k].targetId, k)

\* where the bullets of the combat stage are once moved
MovedBullets ==
    { [b EXCEPT !.x = @ + b.vx, !.y = @ + b.vy] :
        b \in { stageLog[AfterRegen].bullets[i] : i \in DOMAIN stageLog[AfterRegen].bullets } }

\* a bullet hit b while it was as near to the invulnerable a, which lost nothing
C13_Witness ==
    /\ last.op = "tick"
    /\ \E k \in DOMAIN events, b \in MovedBullets :
          /\ events[k].type = "playerHit"
          /\ events[k].targetId = "b"
          /\ events[k].bulletId = b.id
          /\ stageLog[AfterRegen].players["a"].invulnerable
          /\ getDistanceSq(b.x, b.y, stageLog[AfterRegen].players["a"].x,
                           stageLog[AfterRegen].players["a"].y)
                < (b.radius + 20 * SCALE) * (b.radius + 20 * SCALE)
          /\ players["a"].energy = stageLog[AtStart].players["a"].energy

\* C14: the player spawned by the connection handled at tick count StartTick
\* cannot lose energy to a bullet during the 120 ticks that follow: it enters
\* the combat stage of each of them invulnerable and no playerHit event of
\* those ticks names it.
C14_SpawnProtectsFor120Ticks ==
    (stageLog # <<>> /\ tickCount <= StartTick + 120) =>
        /\ stageLog[AfterRegen].players["c"].invulnerable
        /\ \A k \in DOMAIN events :
              events[k].type = "playerHit" => events[k].targetId # "c"

\* the inputs of the interval before the last tick that player id sent, in order
GotFrom(id) ==
    LET mine == SelectSeq(inbox.got, LAMBDA e : e.id = id)
    IN  [k \in 1..Len(mine) |-> mine[k].input]

\* player p once the input stage has applied input x to it
Applied(p, x) == [processPlayerInput(p, x) EXCEPT !.lastProcessedSequence = x.sequence]

NewerThanProcessed(p, x) ==
    ~x.isNull /\ x.hasSequence /\ x.sequence > p.lastProcessedSequence

\* C15: the input stage of a tick leaves a player as it was or applies exactly
\* one input to it, the one received last since the previous tick, and only
\* when that input is newer than the last one applied; with no input received
\* since the previous tick nothing is applied.
C15_AtMostLatestInputApplied ==
    stageLog # <<>> =>
        \A id \in DOMAIN stageLog[AtStart].players :
            \/ stageLog[AfterInput].players[id] = stageLog[AtStart].players[id]
            \/ /\ GotFrom(id) # <<>>
               /\ NewerThanProcessed(stageLog[AtStart].players[id], Last(GotFrom(id)))
               /\ stageLog[AfterInput].players[id] =
                     Applied(stageLog[AtStart].players[id], Last(GotFrom(id)))

\* two different inputs, both newer than the last processed one, came in one
\* interval: the tick applied the second and not the first
C15_Witness ==
    /\ last.op = "tick"
    /\ Len(GotFrom("a")) >= 2
    /\ NewerThanProcessed(stageLog[AtStart].players["a"], GotFrom("a")[1])
    /\ NewerThanProcessed(stageLog[AtStart].players["a"], Last(GotFrom("a")))
    /\ stageLog[AfterInput].players["a"] =
          Applied(stageLog[AtStart].players["a"], Last(GotFrom("a")))
    /\ stageLog[AfterInput].players["a"] #
          Applied(stageLog[AtStart].players["a"], GotFrom("a")[1])

\* C16: the input, shoot and ping handlers change no player's position,
\* velocity or energy and leave the list of live bullets as it is.
C16_HandlersWriteOnlySlots ==
    [][last'.op \in {"input", "shoot", "ping"} =>
          /\ bullets' = bullets
          /\ DOMAIN players' = DOMAIN players
          /\ \A id \in DOMAIN players :
                /\ players'[id].x = players[id].x
                /\ players'[id].y = players[id].y
                /\ players'[id].velocityX = players[id].velocityX
                /\ players'[id].velocityY = players[id].velocityY
                /\ players'[id].energy = players[id].energy]_vars

Snapshots(evs) == Events("gameState", evs)

\* C17: every tick emits exactly one gameState snapshot, as its last event, and
\* the snapshot carries the tick number of the previous tick plus one; the
\* handlers that run between ticks emit no snapshot and leave the tick number
\* alone.
C17_OneSnapshotPerTick ==
    [][IF last'.op = "tick"
       THEN /\ tickCount' = tickCount + 1
            /\ Len(Snapshots(events')) = 1
            /\ events'[Len(events')] = [type |-> "gameState", tick |-> tickCount + 1]
       ELSE /\ tickCount' = tickCount
            /\ Snapshots(events') = <<>>]_vars

\* a second tick, with a handler run before it, has sent the second snapshot
C17_Witness ==
    /\ last.op = "tick"
    /\ handled = 1
    /\ tickCount = StartTick + 2
    /\ Snapshots(events) = <<[type |-> "gameState", tick |-> StartTick + 2]>>

Orphan(bullet) == bullet.ownerId \notin DOMAIN players'

\* C18: the disconnect handler removes the leaving player's record and nothing
\* else: the other players, the bullets (those of the leaving player included)
\* and the pickups are as they were; in the ticks that follow, a bullet whose
\* owner has left advances by its velocity like any other while it is live.
C18_DisconnectLeavesBullets ==
    [][/\ last'.op = "disconnect" =>
            /\ players' = [id \in DOMAIN players \ {last'.id} |-> players[id]]
            /\ bullets' = bullets
            /\ moneyPickups' = moneyPickups
            /\ tickCount' = tickCount
       /\ last'.op = "tick" =>
            \A i \in DOMAIN bullets, j \in DOMAIN bullets' :
                (Orphan(bullets[i]) /\ bullets'[j].id = bullets[i].id) =>
                    bullets'[j] = [bullets[i] EXCEPT !.x = @ + bullets[i].vx,
                                                     !.y = @ + bullets[i].vy]]_vars

\* the bullet of a player that has left has hit a player in a later tick
C18_Witness ==
    /\ last.op = "tick"
    /\ \E k \in DOMAIN events :
          /\ events[k].type = "playerHit"
          /\ events[k].shooterId \in used \ DOMAIN players
          /\ events[k].targetId \in DOMAIN players

\* the death transition has run for the victim named by a playerDied event
Respawned(death, pickups, ps) ==
    /\ \E i \in DOMAIN pickups : pickups[i] = death.moneyDrop
    /\ death.respawn.killStreak = 0
    /\ death.respawn.invulnerable
    /\ death.playerId \in DOMAIN ps

C20_MalformedMessageTolerated ==
    last.op \in {"input", "shoot"} => fault = "none"

\* a record as spawnPlayer builds it, in the fields C21 names
FreshlySpawned(id, player) ==
    /\ player.id = id
    /\ 100 * SCALE <= player.x
    /\ player.x < 1600 * SCALE - 100 * SCALE
    /\ 100 * SCALE <= player.y
    /\ player.y < 1200 * SCALE - 100 * SCALE
    /\ player.velocityX = 0
    /\ player.velocityY = 0
    /\ player.energy = 100 * SCALE
    /\ player.dollarValue = 1 * SCALE
    /\ player.invulnerable
    /\ player.invulnerableTicksRemaining = 120
    /\ player.currentInput.isNull
    /\ player.lastProcessedSequence = -1

\* the stage of the tick in which a death happened: physics for a wall death,
\* combat for a death by a bullet
StageOfDeath(death) == IF death.killerId = NoKiller THEN AfterPhysics ELSE AfterBullets

\* C21: a death resets the victim within the tick of the death: the record the
\* playerDied event carries, and the victim's record when the stage of the death
\* ends, keep the victim's id and have a position inside the padded spawn
\* region, zero velocity, energy 100, currency value 1.0, invulnerable with 120
\* ticks remaining, no pending input and no last processed sequence number.
C21_DeathResetsVictim ==
    stageLog # <<>> =>
        \A k \in DOMAIN Deaths(events) :
            /\ FreshlySpawned(Deaths(events)[k].playerId, Deaths(events)[k].respawn)
            /\ FreshlySpawned(Deaths(events)[k].playerId,
                              stageLog[StageOfDeath(Deaths(events)[k])]
                                  .players[Deaths(events)[k].playerId])

\* a bullet has killed a moving player worth more than the baseline whose last
\* input had been processed
C21_Witness ==
    /\ stageLog # <<>>
    /\ \E k \in DOMAIN Deaths(events) :
          /\ Deaths(events)[k].killerId # NoKiller
          /\ stageLog[AtStart].players[Deaths(events)[k].playerId].lastProcessedSequence >= 0
          /\ stageLog[AtStart].players[Deaths(events)[k].playerId].velocityY # 0
          /\ stageLog[AtStart].players[Deaths(events)[k].playerId].dollarValue > 1 * SCALE
          /\ Deaths(events)[k].playerId \in DOMAIN players

Credit(player) == <<player.killStreak, player.bountyMultiplier>>

\* C22: a wall death credits no killer and the wall kills invulnerable players
\* too: every player whose integrated position reaches a wall, invulnerable or
\* not, dies in the physics stage; every playerDied event of that stage has
\* killerId null; and the stage increases no player's killStreak or
\* bountyMultiplier.
C22_WallDeathCreditsNoOne ==
    stageLog # <<>> =>
        /\ \A id \in DOMAIN stageLog[AfterInput].players :
              ReachesBoundary(integratePlayer(stageLog[AfterInput].players[id]))
                  => DiedAtWall(id, stageLog[AfterPhysics].events)
        /\ \A k \in DOMAIN Deaths(stageLog[AfterPhysics].events) :
              Deaths(stageLog[AfterPhysics].events)[k].killerId = NoKiller
        /\ \A id \in DOMAIN stageLog[AfterInput].players :
              /\ stageLog[AfterPhysics].players[id].killStreak
                    <= stageLog[AfterInput].players[id].killStreak
              /\ stageLog[AfterPhysics].players[id].bountyMultiplier
                    <= stageLog[AfterInput].players[id].bountyMultiplier

\* an invulnerable player has died on the wall while a bullet of a player with
\* a kill streak was in flight, and that player's credit is what it was
C22_Witness ==
    /\ stageLog # <<>>
    /\ \E id \in DOMAIN stageLog[AfterInput].players :
          /\ stageLog[AfterInput].players[id].invulnerable
          /\ DiedAtWall(id, events)
    /\ \E i \in DOMAIN stageLog[AtStart].bullets :
          /\ stageLog[AtStart].bullets[i].ownerId \in DOMAIN players
          /\ stageLog[AtStart].players[stageLog[AtStart].bullets[i].ownerId].killStreak > 0
          /\ Credit(players[stageLog[AtStart].bullets[i].ownerId])
                = Credit(stageLog[AtStart].players[stageLog[AtStart].bullets[i].ownerId])

\* C23: in every tick, every live player whose boosting flag isBoosting is false
\* when the energy bookkeeping runs gains ENERGY.REGEN there, capped at
\* ENERGY.MAX, whether or not an input was processed in the tick and whatever
\* its stored input holds.
C23_RegenUnlessBoostingFlag ==
    stageLog # <<>> =>
        \A id \in DOMAIN stageLog[AfterInvulnerability].players :
            ~stageLog[AfterInvulnerability].players[id].isBoosting =>
                stageLog[AfterRegen].players[id].energy =
                    Min(100 * SCALE, stageLog[AfterInvulnerability].players[id].energy + 15)

\* the cost and the speed of the profile a charge level selects
ProfileOf(chargeLevel) ==
    CASE chargeLevel = 1 -> [cost |-> 10 * SCALE, speed |-> 7 * SCALE]
      [] chargeLevel = 2 -> [cost |-> 15 * SCALE, speed |-> 8 * SCALE]
      [] OTHER -> [cost |-> 5 * SCALE, speed |-> 6 * SCALE]

\* bullet is at offset 35 from the player along its angle, flying along that
\* angle at the given speed (an angle is <<cos, sin>> in 1/SCALE)
AheadOf(player, bullet, speed) ==
    /\ bullet.x - player.x = 35 * Cos(player.angle)
    /\ bullet.y - player.y = 35 * Sin(player.angle)
    /\ bullet.vx * SCALE = Cos(player.angle) * speed
    /\ bullet.vy * SCALE = Sin(player.angle) * speed

\* C24: a shoot request of a live player that has the energy its profile costs
\* takes exactly that cost from the player's energy and appends exactly one
\* bullet, owned by the player, created at the current tick, 35 ahead of the
\* player along its angle and flying along it at the profile's speed; the
\* other players, the bullets already in flight and the pickups are unchanged.
C24_ShotDebitsAndFires ==
    [][(/\ last'.op = "shoot"
        /\ last'.chargeLevel >= 0
        /\ last'.id \in DOMAIN players
        /\ players[last'.id].energy >= ProfileOf(last'.chargeLevel).cost)
       => /\ players' = [players EXCEPT
                            ![last'.id].energy = @ - ProfileOf(last'.chargeLevel).cost]
          /\ Len(bullets') = Len(bullets) + 1
          /\ SubSeq(bullets', 1, Len(bullets)) = bullets
          /\ bullets'[Len(bullets')].ownerId = last'.id
          /\ bullets'[Len(bullets')].createdAtTick = tickCount
          /\ AheadOf(players[last'.id], bullets'[Len(bullets')],
                     ProfileOf(last'.chargeLevel).speed)
          /\ UNCHANGED <<order, moneyPickups, tickCount>>]_vars

\* c has fired a charged shot while a bullet of a was in flight and a pickup lay
\* on the ground
C24_Witness ==
    /\ last.op = "shoot"
    /\ last.id = "c"
    /\ last.chargeLevel = 2
    /\ Len(bullets) = 2
    /\ bullets[1].ownerId = "a"
    /\ bullets[2].ownerId = "c"
    /\ players["c"].energy = 85 * SCALE
    /\ moneyPickups # <<>>

\* the radius and the damage of the three profiles
ShapeOf(chargeLevel) ==
    CASE chargeLevel = 0 -> [radius |-> 8 * SCALE, damage |-> 15 * SCALE]
      [] chargeLevel = 1 -> [radius |-> 12 * SCALE, damage |-> 30 * SCALE]
      [] chargeLevel = 2 -> [radius |-> 16 * SCALE, damage |-> 45 * SCALE]

\* C25: every live bullet has a charge level in {0, 1, 2} and the radius and
\* damage of that level's profile (8 and 15, 12 and 30, 16 and 45); a shoot
\* request with an unrecognized charge level yields a level-0 bullet.
C25_ProjectileLevels ==
    \A i \in DOMAIN bullets :
        /\ bullets[i].chargeLevel \in {0, 1, 2}
        /\ bullets[i].radius = ShapeOf(bullets[i].chargeLevel).radius
        /\ bullets[i].damage = ShapeOf(bullets[i].chargeLevel).damage

SpeedSq(vx, vy) == vx * vx + vy * vy

\* the velocity updatePlayerPhysics has before it caps it
PreCap(player) ==
    <<TruncDiv(player.velocityX * 98, 100), TruncDiv(player.velocityY * 98, 100)>>

WithinCap(player) ==
    SpeedSq(player.velocityX, player.velocityY)
        <= (IF player.isBoosting THEN (6 * SCALE) * (6 * SCALE) ELSE (4 * SCALE) * (4 * SCALE))

\* C26: after the physics stage of every tick every live player's speed is at
\* most MAX_BOOST_VELOCITY (6) when its boosting flag is set and at most
\* MAX_VELOCITY (4) when it is not, and the speed the stage caps never exceeds
\* VALIDATION.MAX_SPEED (10), so the rescale to that speed never fires.
C26_SpeedWithinCaps ==
    stageLog # <<>> =>
        /\ \A id \in DOMAIN stageLog[AfterPhysics].players :
              WithinCap(stageLog[AfterPhysics].players[id])
        /\ \A id \in DOMAIN stageLog[AfterInput].players :
              SpeedSq(PreCap(stageLog[AfterInput].players[id])[1],
                      PreCap(stageLog[AfterInput].players[id])[2])
                  <= (10 * SCALE) * (10 * SCALE)

\* a boosting player came to the physics stage faster than 6 and left it at
\* no more than 6, moving
C26_Witness ==
    /\ stageLog # <<>>
    /\ \E id \in DOMAIN stageLog[AfterPhysics].players :
          /\ stageLog[AfterPhysics].players[id].isBoosting
          /\ SpeedSq(PreCap(stageLog[AfterInput].players[id])[1],
                     PreCap(stageLog[AfterInput].players[id])[2]) > (6 * SCALE) * (6 * SCALE)
          /\ SpeedSq(stageLog[AfterPhysics].players[id].velocityX,
                     stageLog[AfterPhysics].players[id].velocityY) > (5 * SCALE) * (5 * SCALE)
          /\ WithinCap(stageLog[AfterPhysics].players[id])

\* the players of state st within collection range of a pickup, and the first
\* of them in iteration order
Contenders(st, money) ==
    { id \in DOMAIN st.players : InsideCollection(st.players[id], money) }

FirstOf(ids, ord) ==
    ord[CHOOSE k \in DOMAIN ord :
            /\ ord[k] \in ids
            /\ \A j \in 1..(k - 1) : ord[j] \notin ids]

PicksOf(moneyId, evs) ==
    SelectSeq(Events("moneyPickedUp", evs), LAMBDA e : e.moneyId = moneyId)

\* C27: a pickup is collected at most once.  When the economy stage of a tick
\* starts with two or more players within collection range of a pickup, exactly
\* one moneyPickedUp event names it, for the first of those players in
\* iteration order; that player alone is credited its amount, and the pickup is
\* gone when the stage ends, so that no later tick can credit it.  No tick
\* emits two moneyPickedUp events for one pickup, nor one for a pickup that was
\* not live when its economy stage began.
C27_PickupCollectedOnce ==
    stageLog # <<>> =>
        /\ \A i \in DOMAIN stageLog[AfterBullets].moneyPickups :
              Cardinality(Contenders(stageLog[AfterBullets],
                                     stageLog[AfterBullets].moneyPickups[i])) >= 2 =>
                 /\ Len(PicksOf(stageLog[AfterBullets].moneyPickups[i].id, events)) = 1
                 /\ PicksOf(stageLog[AfterBullets].moneyPickups[i].id, events)[1].playerId
                       = FirstOf(Contenders(stageLog[AfterBullets],
                                            stageLog[AfterBullets].moneyPickups[i]),
                                 stageLog[AfterBullets].order)
                 /\ PickupsWith(stageLog[AfterBullets].moneyPickups[i].id, moneyPickups) = <<>>
        /\ \A k \in DOMAIN Events("moneyPickedUp", events) :
              /\ Len(PicksOf(Events("moneyPickedUp", events)[k].moneyId, events)) = 1
              /\ PickupsWith(Events("moneyPickedUp", events)[k].moneyId,
                             stageLog[AfterBullets].moneyPickups) # <<>>
        /\ \A id \in DOMAIN players :
              players[id].dollarValue =
                  stageLog[AfterBullets].players[id].dollarValue
                      + CollectedBy(id, Events("moneyPickedUp", events),
                                    stageLog[AfterBullets].moneyPickups)

\* b, first in iteration order, and a were both within reach of the pickup: b
\* was credited its amount and a was not
C27_Witness ==
    /\ stageLog # <<>>
    /\ order[1] = "b"
    /\ \E i \in DOMAIN stageLog[AfterBullets].moneyPickups :
          /\ {"a", "b"} \subseteq Contenders(stageLog[AfterBullets],
                                             stageLog[AfterBullets].moneyPickups[i])
          /\ players["b"].dollarValue = stageLog[AfterBullets].players["b"].dollarValue
                                           + stageLog[AfterBullets].moneyPickups[i].amount
          /\ players["a"].dollarValue = stageLog[AfterBullets].players["a"].dollarValue

\* C28: a live player that receives no further input, fires no shot and takes
\* no damage eventually has energy ENERGY.MAX (100) and keeps it, whatever the
\* last input it sent, one with boost set included.
C28_IdlePlayerRecharges ==
    <>[](\A id \in DOMAIN players : players[id].energy = 100 * SCALE)

RECURSIVE Worth(_, _)
Worth(ps, ids) ==
    IF ids = <<>> THEN 0 ELSE ps[Head(ids)].dollarValue + Worth(ps, Tail(ids))

RECURSIVE OnTheGround(_)
OnTheGround(pickups) ==
    IF pickups = <<>> THEN 0 ELSE Head(pickups).amount + OnTheGround(Tail(pickups))

\* the currency in play in state st: what the live players are worth plus what
\* lies on the ground
TotalCurrency(st) == Worth(st.players, st.order) + OnTheGround(st.moneyPickups)

\* C29: across a tick the total currency in play (the live players' currency
\* values plus the live pickups' amounts) grows by exactly 1.0 for each death
\* of the tick and does not change otherwise; the economy stage, which pulls
\* and collects pickups, leaves the total as it finds it.
C29_CurrencyConserved ==
    stageLog # <<>> =>
        /\ TotalCurrency(stageLog[AfterBroadcast])
              = TotalCurrency(stageLog[AtStart]) + 1 * SCALE * Len(Deaths(events))
        /\ TotalCurrency(stageLog[AfterMoney]) = TotalCurrency(stageLog[AfterBullets])

\* a tick in which a player worth 3.0 died, another collected a pickup and the
\* drop was pulled
C29_Witness ==
    /\ stageLog # <<>>
    /\ \E k \in DOMAIN Deaths(events) :
          /\ Deaths(events)[k].moneyDrop.amount = 3 * SCALE
          /\ \E i \in DOMAIN moneyPickups :
                /\ moneyPickups[i].id = Deaths(events)[k].moneyDrop.id
                /\ moneyPickups[i].x # Deaths(events)[k].moneyDrop.x
    /\ Events("moneyPickedUp", events) # <<>>
    /\ TotalCurrency(State) = TotalCurrency(stageLog[AtStart]) + 1 * SCALE

DeathsOf(id, evs) == SelectSeq(Deaths(evs), LAMBDA e : e.playerId = id)

\* the bullets of state st that overlap the place where player was
Around(player, st) ==
    { i \in DOMAIN st.bullets :
        getDistanceSq(st.bullets[i].x, st.bullets[i].y, player.x, player.y)
            < (st.bullets[i].radius + 20 * SCALE) * (st.bullets[i].radius + 20 * SCALE) }

\* C30: a player dies at most once in a tick: one killed by a wall in the
\* physics stage or by a bullet in the combat stage is not killed again by a
\* bullet processed later in that tick.
C30_OneDeathPerTick ==
    stageLog # <<>> =>
        \A id \in DOMAIN stageLog[AtStart].players : Len(DeathsOf(id, events)) <= 1

\* b was killed by c's bullet, the first one processed, while a's bullet, not
\* its own, was on it too; b died once and a's bullet flies on
C30_Witness ==
    /\ stageLog # <<>>
    /\ Len(DeathsOf("b", events)) = 1
    /\ DeathsOf("b", events)[1].killerId = "c"
    /\ Len(stageLog[AfterRegen].bullets) = 2
    /\ stageLog[AfterRegen].bullets[1].ownerId = "a"
    /\ Len(stageLog[AfterBullets].bullets) = 1
    /\ stageLog[AfterBullets].bullets[1].ownerId = "a"
    /\ Around(stageLog[AfterRegen].players["b"], stageLog[AfterBullets]) = {1}

\* C31: in every playerDied event the killerId is null or the id of a player
\* that is in gameState.players when the event is emitted, and it is never the
\* id of the victim.
C31_KillerIsLiveOrNull ==
    last.op = "tick" =>
        \A k \in DOMAIN events :
            events[k].type = "playerDied" =>
                \/ events[k].killerId = NoKiller
                \/ /\ events[k].killerId
                          \in DOMAIN stageLog[StageOfDeath(events[k])].players
                   /\ events[k].killerId # events[k].playerId

\* pickup moneyId lies within the magnetic radius of the player
Near(moneyId) ==
    \E i \in DOMAIN moneyPickups :
        /\ moneyPickups[i].id = moneyId
        /\ WithinMagneticRadius(players["a"], moneyPickups[i])

Removed(moneyId) == \A i \in DOMAIN moneyPickups : moneyPickups[i].id # moneyId

RECURSIVE AmountRemoved(_)
AmountRemoved(moneyId) ==
    IF moneyId = 0 THEN 0
    ELSE AmountRemoved(moneyId - 1)
             + (IF Removed(moneyId) THEN PullAmounts[moneyId] ELSE 0)

\* pickup moneyId is off the list and the player holds its amount
Collected(moneyId) ==
    /\ Removed(moneyId)
    /\ players["a"].dollarValue = BASE_DOLLAR + AmountRemoved(Len(PullAmounts))

\* C32: with a single stationary live player, every pickup within the magnetic
\* radius (distance < 80) of that player is eventually collected by it, removed
\* from the list and credited, the pickup whose distance reaches exactly 35
\* (player radius + pickup radius) included.
C32_NearbyPickupCollected ==
    \A moneyId \in DOMAIN PullAmounts : Near(moneyId) ~> Collected(moneyId)

\* the flag and the count of a player agree, and the count is in range
Shielded(player) ==
    /\ player.invulnerable <=> player.invulnerableTicksRemaining > 0
    /\ player.invulnerableTicksRemaining \in 0..120

\* the ids of the players that died while the tick went from stage k - 1 to
\* stage k
DiedInStage(k) ==
    { stageLog[k].events[n].playerId :
        n \in { n \in DOMAIN stageLog[k].events :
                  /\ n > Len(stageLog[k - 1].events)
                  /\ stageLog[k].events[n].type = "playerDied" } }

\* C33: in every reachable state, at the end of a handler or a tick and between
\* the stages of a tick, every live player is invulnerable if and only if its
\* invulnerableTicksRemaining is above 0, the count is within 0..120, and the
\* count of a player never goes up except by a spawn: across a stage of a tick
\* or a handler it goes up only for a player that died there and was respawned
\* (a player that connects was not live before).
C33_FlagFollowsCount ==
    /\ [](/\ \A id \in DOMAIN players : Shielded(players[id])
          /\ \A k \in DOMAIN stageLog :
                \A id \in DOMAIN stageLog[k].players :
                    /\ Shielded(stageLog[k].players[id])
                    /\ (k > 1 /\ stageLog[k].players[id].invulnerableTicksRemaining
                                   > stageLog[k - 1].players[id].invulnerableTicksRemaining)
                          => id \in DiedInStage(k))
    /\ [][\A id \in DOMAIN players \cap DOMAIN players' :
             players'[id].invulnerableTicksRemaining > players[id].invulnerableTicksRemaining
                 => /\ last'.op = "tick"
                    /\ id \in DiedIn(events')]_vars

\* c, whose invulnerability had run out in an earlier tick, has died at the
\* wall in this tick and is invulnerable again, with 119 ticks remaining
C33_Witness ==
    /\ last.op = "tick"
    /\ ~stageLog[AtStart].players["c"].invulnerable
    /\ stageLog[AtStart].players["c"].invulnerableTicksRemaining = 0
    /\ "c" \in DiedInStage(AfterPhysics)
    /\ stageLog[AfterPhysics].players["c"].invulnerableTicksRemaining = 120
    /\ players["c"].invulnerable
    /\ players["c"].invulnerableTicksRemaining = 119

====
